---- MODULE Spec2Model ----
(***************************************************************************)
(* Cognitive Resonance Engine: the research pipeline orchestrator          *)
(* (app/core/orchestrator.py) with the stage modules it sequences.         *)
(*                                                                         *)
(* One run of ResearchOrchestrator.run_research is a walk of pc through    *)
(* the five stage blocks; every block is the same try/except shape         *)
(* (update_progress "running", module.run, update_progress "complete" or   *)
(* "error"), so the shape is written once as TryStage and used by the      *)
(* five block actions.                                                     *)
(*                                                                         *)
(* Python's Optional[T] is modelled as a sequence of length 0 (None) or    *)
(* 1 (the value).                                                          *)
(***************************************************************************)
EXTENDS Naturals, Integers, Sequences, FiniteSets, TLC

\* ------------------------------------------------------------------ bounds
\* Largest number of elements the audience-generation model text may hold.
MaxItems == 2

\* The same, in runs whose progress callback may raise.
MaxItemsUnsafe == 1

\* Largest number of chat calls made on one client.
MaxChats == 3

\* Largest number of records a concurrent writer appends to the ledger.
MaxLog == 3

\* ------------------------------------------------------------- value sets
\* Names the model may give to a generated ICP ("icp_name").
ItemNames == {"a", "b"}

\* Exceptions a stage module may raise; str(e) is the msg field.
StageErrors ==
    { [type |-> "RetryError", msg |-> "retry exhausted"],
      [type |-> "ValueError", msg |-> "unknown model"] }

\* The exception a per-item stage module raises.
ItemStageErrors == { [type |-> "RetryError", msg |-> "retry exhausted"] }

\* The exception a misbehaving progress callback raises.
CallbackError == [type |-> "TypeError", msg |-> "callback failed"]

\* str(e) of the orchestrator's handlers.
Str(e) == e.msg

\* Company profiles data ingestion can build (parsed or fallback).
Profiles == {"parsed", "fallback"}

VARIABLES
    pc,                 \* position of run_research
    progress_callback,  \* "none" | "ok" | "unsafe" (may raise)
    company_profile,    \* Optional[CompanyProfile]
    raw_research_data,  \* "empty" or "raw"
    icps,               \* List[ICP]
    icp_results,        \* List[ICPAnalysisResult]
    i,                  \* loop index of enumerate(icps), 0-based
    icp_result,         \* the bundle under construction
    exc,                \* Optional: exception travelling to the outer handler
    results,            \* Optional[ResearchResults]: the value returned
    trace,              \* observable history: callback calls and module calls
    usage_log,          \* CostTracker.usage_log: List[TokenUsage]
    chat_pc,            \* position of OpenRouterClient.chat
    chat_model,         \* chat: the resolved model id
    attempt_number,     \* tenacity: number of the current attempt
    attempts,           \* history: outcome of every POST of this chat call
    sleeps,             \* history: seconds waited between the attempts
    chat_outcome,       \* Optional: what chat returned or raised
    log_before,         \* history: usage_log when chat was entered
    chats,              \* number of chat calls begun
    entry,              \* history: the client method called, its model arg
    temperature,        \* sampling temperature of the payload, in tenths
    entry_calls,        \* number of calls of chat, research and analyze
    sum_pc,             \* position of CostTracker.get_summary
    summary,            \* the parts of the summary dict evaluated so far
    summary_log,        \* history: usage_log when get_summary was entered
    response_content,   \* response.content handed to a module's parsing
    origin,             \* history: how content was written
    parse_module,       \* the module that parsed content ("" before)
    extracted,          \* Optional: what its _extract_json returned
    module_result,      \* Optional: what the module made of it, or raised
    given_input,        \* the client_input the parsing module was run with
    stage_log,          \* history: the run_stage calls made, in order
    module_chats,       \* the client calls the running module has made
    session             \* st.session_state: results stored, their summary

orchVars == << pc, progress_callback, company_profile, raw_research_data,
               icps, icp_results, i, icp_result, exc, results, trace >>

clientVars == << chat_pc, chat_model, attempt_number, attempts, sleeps,
                 chat_outcome, log_before, chats, entry, temperature,
                 entry_calls >>

summaryVars == << sum_pc, summary, summary_log >>

parseVars == << response_content, origin, parse_module, extracted,
               module_result, given_input >>

stageVars == << stage_log >>

moduleVars == << module_chats >>

sessionVars == << session >>

vars == << orchVars, usage_log, clientVars, summaryVars, parseVars,
           stageVars, moduleVars, sessionVars >>

\* ------------------------------------------------------------ stage ids
PerItemStages == << "usp_extraction", "pain_taxonomy", "journey_mapping" >>

\* Variant: the per-item identifier leaves the item index out.
StageId_NoIndex(stage, n) == stage

\* f"{stage}_{i+1}" of the per-item blocks.
StageId(stage, n) == stage \o "_" \o ToString(n)

\* ------------------------------------------------------- progress events
\* update_progress: the callback is called iff one was supplied.
Emit(tr, stage_id, status, data, error) ==
    IF progress_callback = "none"
    THEN tr
    ELSE Append(tr, [kind |-> "event", stage_id |-> stage_id,
                     status |-> status, data |-> data, error |-> error])

\* Variant: update_progress calls the callback without testing it, so
\* that calling None raises.
CallbackRaises_Unguarded ==
    IF progress_callback = "none" THEN {TRUE}
    ELSE IF progress_callback = "unsafe" THEN BOOLEAN ELSE {FALSE}

\* Whether a callback call may raise: only an unsafe callback does.
CallbackRaises == IF progress_callback = "unsafe" THEN BOOLEAN ELSE {FALSE}

\* A module invocation: its arguments, the shape of the model text it got
\* back (audience generation only), whether it raised and how many of its
\* client calls returned, and what it returned or raised.
Call(stage, idx, icp, vp, pt, out) ==
    [kind |-> "call", stage |-> stage, idx |-> idx, icp |-> icp,
     value_proposition |-> vp, pain_taxonomy |-> pt, reply |-> out.reply,
     elements |-> out.elements, value |-> out.value, exc |-> out.exc,
     usage |-> out.usage,
     raised |-> ~out.ok, logged |-> Len(out.usage)]

NumCalls(tr) == Cardinality({k \in DOMAIN tr : tr[k].kind = "call"})

\* Variant: the handler logs the failure without telling the observer.
StageFailed_Silent(tr, stage_id, e, returned, r3) ==
    [trace |-> tr, called |-> TRUE, returned |-> returned,
     caught |-> <<e>>, exc |-> <<>>]

\* The except-branch of a stage block: report the error to the observer.
\* caught is the exception the block caught, exc the one raised inside the
\* handler itself (by the callback).
StageFailed(tr, stage_id, e, returned, r3) ==
    [trace |-> Emit(tr, stage_id, "error", <<>>, <<Str(e)>>),
     called |-> TRUE, returned |-> returned,
     caught |-> <<e>>, exc |-> IF r3 THEN <<CallbackError>> ELSE <<>>]

\* One stage block.  out is the module's outcome, data the payload of the
\* "complete" event, r1/r2/r3 whether the callback raises on the "running",
\* "complete" and "error" call.
TryStage(tr, stage_id, call, out, data, r1, r2, r3) ==
    LET t1 == Emit(tr, stage_id, "running", <<>>, <<>>) IN
    IF r1
    THEN [trace |-> t1, called |-> FALSE, returned |-> FALSE,
          caught |-> <<>>, exc |-> <<CallbackError>>]
    ELSE LET t2 == Append(t1, call) IN
         IF out.ok
         THEN LET t3 == Emit(t2, stage_id, "complete", data, <<>>) IN
              IF r2
              THEN StageFailed(t3, stage_id, CallbackError, TRUE, r3)
              ELSE [trace |-> t3, called |-> TRUE, returned |-> TRUE,
                    caught |-> <<>>, exc |-> <<>>]
         ELSE StageFailed(t2, stage_id, out.exc[1], FALSE, r3)

\* Variant: the handler of a fatal block reports the error and goes on.
FatalExc_Swallow(b) == b.exc

\* What leaves a fatal block (the handler ends in `raise`).
FatalExc(b) == IF b.exc # <<>> THEN b.exc ELSE b.caught

\* Variant: the handler of a per-item block re-raises like a fatal one.
NonFatalExc_Reraise(b) == IF b.exc # <<>> THEN b.exc ELSE b.caught

\* What leaves a per-item block (the handler swallows the exception).
NonFatalExc(b) == b.exc

\* -------------------------------------------------- catalogue and ledger
\* config.AVAILABLE_MODELS, three of its six entries.  Prices are kept in
\* cents per million tokens, so that costs are whole numbers: one cost
\* unit is 10^-8 dollar.
AVAILABLE_MODELS ==
    [m \in {"perplexity/sonar-pro", "anthropic/claude-3.5-sonnet",
            "openai/gpt-4o-mini"} |->
        IF m = "openai/gpt-4o-mini"
        THEN [input_price_per_million |-> 15,
              output_price_per_million |-> 60]
        ELSE [input_price_per_million |-> 300,
              output_price_per_million |-> 1500]]

DEFAULT_RESEARCH_MODEL == "perplexity/sonar-pro"

DEFAULT_ANALYSIS_MODEL == "anthropic/claude-3.5-sonnet"

\* Variant: the two prices are applied to the wrong token counts.
CalculateCost_SwappedPrices(model_id, input_tokens, output_tokens) ==
    input_tokens * AVAILABLE_MODELS[model_id].output_price_per_million
    + output_tokens * AVAILABLE_MODELS[model_id].input_price_per_million

\* config.calculate_cost, for a model of the catalogue.
CalculateCost(model_id, input_tokens, output_tokens) ==
    input_tokens * AVAILABLE_MODELS[model_id].input_price_per_million
    + output_tokens * AVAILABLE_MODELS[model_id].output_price_per_million

\* The TokenUsage dataclass (the timestamp is left out).
TokenUsage(model, input_tokens, output_tokens, total_tokens, cost) ==
    [model |-> model, input_tokens |-> input_tokens,
     output_tokens |-> output_tokens, total_tokens |-> total_tokens,
     estimated_cost |-> cost]

\* sum(u.field for u in log)
RECURSIVE Sum(_, _)
Sum(log, field) ==
    IF log = <<>> THEN 0
    ELSE Sum(SubSeq(log, 1, Len(log) - 1), field) + log[Len(log)][field]

\* CostTracker.get_total_cost
GetTotalCost(log) == Sum(log, "estimated_cost")

\* The three sums of CostTracker.get_total_tokens.
SumInputTokens(log) == Sum(log, "input_tokens")

SumOutputTokens(log) == Sum(log, "output_tokens")

SumTotalTokens(log) == Sum(log, "total_tokens")

GetTotalTokens(log) ==
    [input |-> SumInputTokens(log), output |-> SumOutputTokens(log),
     total |-> SumTotalTokens(log)]

\* The entry get_usage_by_model creates for a model it has not seen.
NewBreakdown ==
    [input_tokens |-> 0, output_tokens |-> 0, total_tokens |-> 0,
     cost |-> 0, requests |-> 0]

\* What the loop body of get_usage_by_model adds to a field of the entry.
Amount(usage, field) ==
    CASE field = "requests" -> 1
      [] field = "cost"     -> usage.estimated_cost
      [] OTHER              -> usage[field]

\* Variant: the loop body assigns instead of adding.
AddUsage_Overwrite(value, amount) == amount

\* entry[field] += amount
AddUsage(value, amount) == value + amount

\* The loop of get_usage_by_model as it acts on one field of the entry of
\* one model: the field after the first k records.
RECURSIVE BreakdownLoop(_, _, _, _)
BreakdownLoop(log, k, model, field) ==
    IF k = 0 THEN NewBreakdown[field]
    ELSE IF log[k].model = model
         THEN AddUsage(BreakdownLoop(log, k - 1, model, field),
                       Amount(log[k], field))
         ELSE BreakdownLoop(log, k - 1, model, field)

\* CostTracker.get_usage_by_model: an entry is created, as NewBreakdown,
\* for every model that has a record.
GetUsageByModel(log) ==
    [model \in { log[k].model : k \in DOMAIN log } |->
        [field \in DOMAIN NewBreakdown |->
            BreakdownLoop(log, Len(log), model, field)]]

\* CostTracker.get_summary with nothing running in between.
GetSummary(log) ==
    [total_cost |-> GetTotalCost(log),
     total_tokens |-> GetTotalTokens(log),
     by_model |-> GetUsageByModel(log),
     total_requests |-> Len(log)]

\* ---------------------------------------------------------- stage modules
\* The ledger record of a client call a stage module made with `model`.
StageUsage(model) ==
    TokenUsage(model, 1000, 500, 1500, CalculateCost(model, 1000, 500))

\* A module outcome: run raised e, or run returned v (reply is the shape of
\* the model text behind v where the model keeps it, "" elsewhere, and
\* elements what audience generation extracted from it).  usage holds the
\* ledger records of the module's client calls that returned: a failed
\* call left none.
Raising(errors) ==
    { [ok |-> FALSE, value |-> <<>>, exc |-> <<e>>, reply |-> "",
       elements |-> <<>>, usage |-> <<>>] : e \in errors }

Returning(v) ==
    [ok |-> TRUE, value |-> <<v>>, exc |-> <<>>, reply |-> "",
     elements |-> <<>>, usage |-> << StageUsage(DEFAULT_ANALYSIS_MODEL) >>]

\* DataIngestionModule.run: (CompanyProfile, raw_data) or raises.  It makes
\* two research calls (_research_company, _research_competitors); either
\* may be the one that fails.
DataIngestionRun ==
    { [ Returning([profile |-> p, raw |-> "raw"])
        EXCEPT !.usage = << StageUsage(DEFAULT_RESEARCH_MODEL),
                            StageUsage(DEFAULT_RESEARCH_MODEL) >> ] :
        p \in Profiles }
    \cup Raising(StageErrors)
    \cup { [ o EXCEPT !.usage = << StageUsage(DEFAULT_RESEARCH_MODEL) >> ] :
             o \in Raising(StageErrors) }

\* Model text of the audience-generation answer, by JSON shape.
ItemBound ==
    IF progress_callback = "unsafe" THEN MaxItemsUnsafe ELSE MaxItems

\* The intensity a motivation of an element is given: one the Motivation
\* model accepts and one it rejects.
Intensities == {5, 11}

\* An element of the answer: its name and the intensity of a motivation.
ElementData == [icp_name : ItemNames, intensity : Intensities]

Contents ==
    { [shape |-> "array", elems |-> s] :
        s \in UNION { [1..n -> ElementData] : n \in 0..ItemBound } }
    \cup { [shape |-> "object", elems |-> <<x>>] : x \in ElementData }
    \cup { [shape |-> "broken", elems |-> <<>>] }

\* AudienceResearchModule._extract_json by the shape of what json.loads is
\* given: a list stays, a single object is wrapped, text json.loads
\* rejects gives [].  AudienceExtractJson below works on the text itself.
ExtractJsonArray(content) ==
    CASE content.shape = "array"  -> content.elems
      [] content.shape = "object" -> << content.elems[1] >>
      [] content.shape = "broken" -> << >>

\* What pydantic raises for a field outside its bounds.
ValidationError == [type |-> "ValidationError", msg |-> "intensity"]

\* Motivation.intensity: Field(default=5, ge=1, le=10)
IntensityMin == 1

IntensityMax == 10

\* AudienceResearchModule._parse_icp: the ICP, or the ValidationError of
\* the Motivation it builds.
ParseIcp(data) ==
    IF data.intensity >= IntensityMin /\ data.intensity <= IntensityMax
    THEN [ok |-> TRUE, value |-> << [icp_name |-> data.icp_name] >>,
          exc |-> << >>]
    ELSE [ok |-> FALSE, value |-> << >>, exc |-> << ValidationError >>]

\* Variant: an element that does not convert is skipped.
ConvertIcps_SkipBad(icp_data) ==
    LET good == SelectSeq(icp_data, LAMBDA d : ParseIcp(d).ok)
    IN [ok |-> TRUE,
        value |-> << [k \in DOMAIN good |-> ParseIcp(good[k]).value[1]] >>,
        exc |-> << >>]

\* The loop of run over the extracted elements: the exception of the first
\* element that does not convert leaves the loop and run.
ConvertIcps(icp_data) ==
    LET bad == { k \in DOMAIN icp_data : ~ParseIcp(icp_data[k]).ok }
    IN IF bad = {}
       THEN [ok |-> TRUE,
             value |-> << [k \in DOMAIN icp_data |->
                             ParseIcp(icp_data[k]).value[1]] >>,
             exc |-> << >>]
       ELSE [ok |-> FALSE, value |-> << >>,
             exc |-> ParseIcp(icp_data[CHOOSE k \in bad :
                                         \A j \in bad : k <= j]).exc]

\* AudienceResearchModule.run: the analyze call raises, or its text is
\* extracted and the elements converted; the analyze call that returned
\* left its ledger record either way.
AudienceResearchRun ==
    { LET icp_data == ExtractJsonArray(c)
          icps_made == ConvertIcps(icp_data)
      IN [ok |-> icps_made.ok, value |-> icps_made.value,
          exc |-> icps_made.exc, reply |-> c.shape, elements |-> icp_data,
          usage |-> << StageUsage(DEFAULT_ANALYSIS_MODEL) >>] :
        c \in Contents }
    \cup Raising(StageErrors)

\* The record a per-item module returns: made by `stage` for `icp` in the
\* n-th module invocation of the run.
Output(stage, icp, n) == [by |-> stage, icp |-> icp, n |-> n]

PerItemRun(stage, icp, n) ==
    { Returning(Output(stage, icp, n)) } \cup Raising(ItemStageErrors)

\* JourneyMappingModule.run: what the prompt is built from.
JourneyContext(icp, vp, pt) ==
    [value_proposition |-> IF vp # <<>> THEN vp ELSE <<"Not analyzed">>,
     pains |-> IF pt # <<>> THEN pt ELSE <<icp>>]

\* ------------------------------------------------------------------ Init
NoBundle == [icp |-> [icp_name |-> ""], value_proposition |-> <<>>,
             pain_taxonomy |-> <<>>, journey_map |-> <<>>]

InitWith(callbacks) ==
    /\ pc = "idle"
    /\ progress_callback \in callbacks
    /\ company_profile = <<>>
    /\ raw_research_data = "empty"
    /\ icps = <<>>
    /\ icp_results = <<>>
    /\ i = 0
    /\ icp_result = NoBundle
    /\ exc = <<>>
    /\ results = <<>>
    /\ trace = <<>>
    /\ usage_log = <<>>
    /\ chat_pc = "idle"
    /\ chat_model = ""
    /\ attempt_number = 0
    /\ attempts = <<>>
    /\ sleeps = <<>>
    /\ chat_outcome = <<>>
    /\ log_before = <<>>
    /\ chats = 0
    /\ entry = [name |-> "", model |-> <<>>]
    /\ temperature = 0
    /\ entry_calls = 0
    /\ sum_pc = "idle"
    /\ summary = <<>>
    /\ summary_log = <<>>
    /\ stage_log = <<>>
    /\ module_chats = [serial |-> 0, outs |-> <<>>]
    /\ session = [stored |-> 0, cost_summary |-> << >>]

\* BusinessModelType: the values of the enum.
BusinessModelType == {"B2B", "B2C", "Both"}

\* The client input of the run, and the ones that differ from it in the
\* business model.
ClientInput ==
    [client_name |-> "Acme", website_url |-> "https://acme.example",
     industry |-> "Retail", business_model |-> "B2C"]

ClientInputs ==
    { [ClientInput EXCEPT !.business_model = v] : v \in BusinessModelType }

\* No text is being parsed.
NoOrigin == [kind |-> "none", fence |-> << >>, value |-> << >>]

NoText ==
    /\ response_content = << >>
    /\ origin = NoOrigin
    /\ parse_module = ""
    /\ extracted = << >>
    /\ module_result = << >>
    /\ given_input = ClientInput

\* The observer keeps its contract (it must not raise), or none is given.
Init == InitWith({"none", "ok"}) /\ NoText

\* Any observer, also one that raises.
InitObs == InitWith({"none", "ok", "unsafe"}) /\ NoText

\* -------------------------------------------------------------- actions
\* run_research entry: the result containers.
RunResearch ==
    /\ pc = "idle"
    /\ company_profile' = <<>>
    /\ icps' = <<>>
    /\ icp_results' = <<>>
    /\ raw_research_data' = "empty"
    /\ pc' = "data_ingestion"
    /\ UNCHANGED << usage_log, clientVars, summaryVars, parseVars, stageVars,
                    moduleVars, sessionVars >>
    /\ UNCHANGED << progress_callback, i, icp_result, exc, results, trace >>

\* Stage 1.
DataIngestionWith(outs) ==
    /\ pc = "data_ingestion"
    /\ \E out \in outs, r1, r2, r3 \in CallbackRaises :
         LET call == Call("data_ingestion", 0, <<>>, <<>>, <<>>, out)
             data == IF out.ok THEN <<out.value[1].profile>> ELSE <<>>
             b == TryStage(trace, "data_ingestion", call, out, data,
                           r1, r2, r3)
         IN /\ trace' = b.trace
            /\ usage_log' =
                 IF b.called THEN usage_log \o out.usage ELSE usage_log
            /\ company_profile' =
                 IF b.returned THEN <<out.value[1].profile>>
                 ELSE company_profile
            /\ raw_research_data' =
                 IF b.returned THEN out.value[1].raw ELSE raw_research_data
            /\ exc' = FatalExc(b)
            /\ pc' = IF FatalExc(b) # <<>> THEN "except"
                     ELSE "audience_research"
    /\ UNCHANGED << clientVars, summaryVars, parseVars, stageVars, moduleVars,
                    sessionVars >>
    /\ UNCHANGED << progress_callback, icps, icp_results, i, icp_result,
                    results >>

DataIngestion == DataIngestionWith(DataIngestionRun)

\* Stage 2.
AudienceResearchWith(outs) ==
    /\ pc = "audience_research"
    /\ \E out \in outs, r1, r2, r3 \in CallbackRaises :
         LET call == Call("audience_research", 0, <<>>, <<>>, <<>>, out)
             data == IF out.ok THEN <<Len(out.value[1])>> ELSE <<>>
             b == TryStage(trace, "audience_research", call, out, data,
                           r1, r2, r3)
         IN /\ trace' = b.trace
            /\ usage_log' =
                 IF b.called THEN usage_log \o out.usage ELSE usage_log
            /\ icps' = IF b.returned THEN out.value[1] ELSE icps
            /\ exc' = FatalExc(b)
            /\ pc' = IF FatalExc(b) # <<>> THEN "except" ELSE "for_icp"
    /\ i' = 0
    /\ UNCHANGED << clientVars, summaryVars, parseVars, stageVars, moduleVars,
                    sessionVars >>
    /\ UNCHANGED << progress_callback, company_profile, raw_research_data,
                    icp_results, icp_result, results >>

AudienceResearch == AudienceResearchWith(AudienceResearchRun)

\* Variant: the loop stops one item early.
ForEachIcp_SkipLast ==
    /\ pc = "for_icp"
    /\ IF i + 1 < Len(icps)
       THEN /\ icp_result' = [icp |-> icps[i + 1],
                              value_proposition |-> <<>>,
                              pain_taxonomy |-> <<>>,
                              journey_map |-> <<>>]
            /\ pc' = "usp_extraction"
       ELSE /\ icp_result' = icp_result
            /\ pc' = "compile"
    /\ UNCHANGED << usage_log, clientVars, summaryVars, parseVars, stageVars,
                    moduleVars, sessionVars >>
    /\ UNCHANGED << progress_callback, company_profile, raw_research_data,
                    icps, icp_results, i, exc, results, trace >>

\* Variant: one bundle object is reused for every item.
ForEachIcp_Reuse ==
    /\ pc = "for_icp"
    /\ IF i < Len(icps)
       THEN /\ icp_result' = [icp_result EXCEPT !.icp = icps[i + 1]]
            /\ pc' = "usp_extraction"
       ELSE /\ icp_result' = icp_result
            /\ pc' = "compile"
    /\ UNCHANGED << usage_log, clientVars, summaryVars, parseVars, stageVars,
                    moduleVars, sessionVars >>
    /\ UNCHANGED << progress_callback, company_profile, raw_research_data,
                    icps, icp_results, i, exc, results, trace >>

\* for i, icp in enumerate(icps): icp_result = ICPAnalysisResult(icp=icp)
ForEachIcp ==
    /\ pc = "for_icp"
    /\ IF i < Len(icps)
       THEN /\ icp_result' = [icp |-> icps[i + 1],
                              value_proposition |-> <<>>,
                              pain_taxonomy |-> <<>>,
                              journey_map |-> <<>>]
            /\ pc' = "usp_extraction"
       ELSE /\ icp_result' = icp_result
            /\ pc' = "compile"
    /\ UNCHANGED << usage_log, clientVars, summaryVars, parseVars, stageVars,
                    moduleVars, sessionVars >>
    /\ UNCHANGED << progress_callback, company_profile, raw_research_data,
                    icps, icp_results, i, exc, results, trace >>

\* Stage 3 for the current item.
UspExtractionWith(outs) ==
    /\ pc = "usp_extraction"
    /\ \E out \in outs, r1, r2, r3 \in CallbackRaises :
         LET call == Call("usp_extraction", i + 1, <<icp_result.icp>>,
                          <<>>, <<>>, out)
             b == TryStage(trace, StageId("usp_extraction", i + 1), call,
                           out, <<"fit_score">>, r1, r2, r3)
         IN /\ trace' = b.trace
            /\ usage_log' =
                 IF b.called THEN usage_log \o out.usage ELSE usage_log
            /\ icp_result' =
                 IF b.returned
                 THEN [icp_result EXCEPT !.value_proposition = out.value]
                 ELSE icp_result
            /\ exc' = NonFatalExc(b)
            /\ pc' = IF NonFatalExc(b) # <<>> THEN "except"
                     ELSE "pain_taxonomy"
    /\ UNCHANGED << clientVars, summaryVars, parseVars, stageVars, moduleVars,
                    sessionVars >>
    /\ UNCHANGED << progress_callback, company_profile, raw_research_data,
                    icps, icp_results, i, results >>

UspExtraction ==
    UspExtractionWith(PerItemRun("usp_extraction", icp_result.icp,
                                 NumCalls(trace) + 1))

\* Stage 4 for the current item.
PainTaxonomyWith(outs) ==
    /\ pc = "pain_taxonomy"
    /\ \E out \in outs, r1, r2, r3 \in CallbackRaises :
         LET call == Call("pain_taxonomy", i + 1, <<icp_result.icp>>,
                          <<>>, <<>>, out)
             b == TryStage(trace, StageId("pain_taxonomy", i + 1), call,
                           out, <<"num_pains">>, r1, r2, r3)
         IN /\ trace' = b.trace
            /\ usage_log' =
                 IF b.called THEN usage_log \o out.usage ELSE usage_log
            /\ icp_result' =
                 IF b.returned
                 THEN [icp_result EXCEPT !.pain_taxonomy = out.value]
                 ELSE icp_result
            /\ exc' = NonFatalExc(b)
            /\ pc' = IF NonFatalExc(b) # <<>> THEN "except"
                     ELSE "journey_mapping"
    /\ UNCHANGED << clientVars, summaryVars, parseVars, stageVars, moduleVars,
                    sessionVars >>
    /\ UNCHANGED << progress_callback, company_profile, raw_research_data,
                    icps, icp_results, i, results >>

PainTaxonomy ==
    PainTaxonomyWith(PerItemRun("pain_taxonomy", icp_result.icp,
                                NumCalls(trace) + 1))

\* Stage 5 for the current item, then icp_results.append(icp_result).
JourneyMappingWith(outs) ==
    /\ pc = "journey_mapping"
    /\ \E out \in outs, r1, r2, r3 \in CallbackRaises :
         LET call == Call("journey_mapping", i + 1, <<icp_result.icp>>,
                          icp_result.value_proposition,
                          icp_result.pain_taxonomy, out)
             b == TryStage(trace, StageId("journey_mapping", i + 1), call,
                           out, <<"stages">>, r1, r2, r3)
             bundle == IF b.returned
                       THEN [icp_result EXCEPT !.journey_map = out.value]
                       ELSE icp_result
         IN /\ trace' = b.trace
            /\ usage_log' =
                 IF b.called THEN usage_log \o out.usage ELSE usage_log
            /\ icp_result' = bundle
            /\ exc' = NonFatalExc(b)
            /\ IF NonFatalExc(b) # <<>>
               THEN /\ pc' = "except"
                    /\ UNCHANGED << icp_results, i >>
               ELSE /\ pc' = "for_icp"
                    /\ icp_results' = Append(icp_results, bundle)
                    /\ i' = i + 1
    /\ UNCHANGED << clientVars, summaryVars, parseVars, stageVars, moduleVars,
                    sessionVars >>
    /\ UNCHANGED << progress_callback, company_profile, raw_research_data,
                    icps, results >>

JourneyMapping ==
    JourneyMappingWith(PerItemRun("journey_mapping",
                                  JourneyContext(
                                      icp_result.icp,
                                      icp_result.value_proposition,
                                      icp_result.pain_taxonomy),
                                  NumCalls(trace) + 1))

\* Variant: the result is built from fresh containers.
ResearchResults_NoPartial(error) ==
    [company_profile |-> <<>>, icps |-> icp_results,
     raw_research_data |-> "empty", error |-> error,
     cost_summary |-> GetSummary(usage_log)]

\* Variant: the summary is taken from a ledger of the result's own.
ResearchResults_OwnLedger(error) ==
    [company_profile |-> company_profile, icps |-> icp_results,
     raw_research_data |-> raw_research_data, error |-> error,
     cost_summary |-> GetSummary(<<>>)]

\* ResearchResults(...) as both return statements build it.
ResearchResults(error) ==
    [company_profile |-> company_profile, icps |-> icp_results,
     raw_research_data |-> raw_research_data, error |-> error,
     cost_summary |-> GetSummary(usage_log)]

\* Compile Final Results: return results.
Compile ==
    /\ pc = "compile"
    /\ results' = << ResearchResults(<<>>) >>
    /\ pc' = "returned"
    /\ UNCHANGED << usage_log, clientVars, summaryVars, parseVars, stageVars,
                    moduleVars, sessionVars >>
    /\ UNCHANGED << progress_callback, company_profile, raw_research_data,
                    icps, icp_results, i, icp_result, exc, trace >>

\* Variant: the outer handler logs and re-raises.
PipelineFailed_Reraise ==
    /\ pc = "except"
    /\ pc' = "raised"
    /\ UNCHANGED << usage_log, clientVars, summaryVars, parseVars, stageVars,
                    moduleVars, sessionVars >>
    /\ UNCHANGED << progress_callback, company_profile, raw_research_data,
                    icps, icp_results, i, icp_result, exc, results, trace >>

\* Variant: the outer handler clears the ledger of the failed run before
\* it builds the result.
PipelineFailed_Rollback ==
    /\ pc = "except"
    /\ usage_log' = << >>
    /\ results' = << [ResearchResults(<< Str(exc[1]) >>)
                        EXCEPT !.cost_summary = GetSummary(<< >>)] >>
    /\ pc' = "returned"
    /\ UNCHANGED << clientVars, summaryVars, parseVars, stageVars, moduleVars,
                    sessionVars >>
    /\ UNCHANGED << progress_callback, company_profile, raw_research_data,
                    icps, icp_results, i, icp_result, exc, trace >>

\* except Exception as e: return partial results with error=str(e).
PipelineFailed ==
    /\ pc = "except"
    /\ results' = << ResearchResults(<< Str(exc[1]) >>) >>
    /\ pc' = "returned"
    /\ UNCHANGED << usage_log, clientVars, summaryVars, parseVars, stageVars,
                    moduleVars, sessionVars >>
    /\ UNCHANGED << progress_callback, company_profile, raw_research_data,
                    icps, icp_results, i, icp_result, exc, trace >>

Next ==
    \/ RunResearch
    \/ DataIngestion
    \/ AudienceResearch
    \/ ForEachIcp
    \/ UspExtraction
    \/ PainTaxonomy
    \/ JourneyMapping
    \/ Compile
    \/ PipelineFailed

Spec == Init /\ [][Next]_vars

SpecObs == InitObs /\ [][Next]_vars

\* ------------------------------------------------- the OpenRouter client
\* @retry(stop=stop_after_attempt(3), ...)
MaxAttempts == 3

\* wait_exponential(multiplier=1, min=4, max=10)
WaitMultiplier == 1

WaitMin == 4

WaitMax == 10

\* The model argument of chat: None, a catalogue id, an id outside it.
ModelArgs == { <<>>, <<"openai/gpt-4o-mini">>, <<"unknown/model">> }

\* Exceptions of the client; str(e) is the msg field.
ReadTimeout == [type |-> "ReadTimeout", msg |-> "timed out"]

ConnectError == [type |-> "ConnectError", msg |-> "connection failed"]

HTTPStatusError(status_code) ==
    [type |-> "HTTPStatusError", msg |-> ToString(status_code)]

UnknownModel(model_id) ==
    [type |-> "ValueError", msg |-> "Unknown model: " \o model_id]

KeyError == [type |-> "KeyError", msg |-> "choices"]

\* tenacity.RetryError: what the retry decorator raises when it gives up
\* (no reraise=True is passed); the last failure is its cause.
RetryError(e) == [type |-> "RetryError", msg |-> "RetryError[" \o e.type \o "]"]

\* JSON bodies of a 200 answer: with usage and total_tokens, with usage
\* but no total_tokens, without usage, without choices.
Bodies ==
    { [choices |-> <<"text">>,
       usage |-> << [prompt_tokens |-> 1000, completion_tokens |-> 500,
                     total_tokens |-> <<1600>>] >>],
      [choices |-> <<"text">>,
       usage |-> << [prompt_tokens |-> 2000, completion_tokens |-> 100,
                     total_tokens |-> <<>>] >>],
      [choices |-> <<"text">>, usage |-> <<>>],
      [choices |-> <<>>, usage |-> <<>>] }

\* The JSON body of an error answer.
ErrorBody == [choices |-> <<>>, usage |-> <<>>]

\* What self.client.post does: it raises, or a response comes back.
PostOutcomes ==
    { [exc |-> <<e>>, response |-> <<>>] : e \in {ReadTimeout, ConnectError} }
    \cup { [exc |-> <<>>, response |-> << [status_code |-> 200, json |-> b] >>] :
             b \in Bodies }
    \cup { [exc |-> <<>>,
            response |-> << [status_code |-> c, json |-> ErrorBody] >>] :
             c \in {401, 422, 503} }

\* response.raise_for_status()
RaiseForStatus(response) ==
    IF response.status_code >= 400
    THEN << HTTPStatusError(response.status_code) >>
    ELSE << >>

\* The exception one execution of the body of _make_request ends with
\* after the POST, if any.
AttemptFailure(post) ==
    IF post.exc # <<>> THEN post.exc ELSE RaiseForStatus(post.response[1])

\* Variant: every exception is retried.
RetryIf_Any(e) == TRUE

\* retry_if_exception_type((httpx.TimeoutException, httpx.HTTPStatusError));
\* ReadTimeout is a TimeoutException.
RetryIf(e) == e.type \in {"ReadTimeout", "HTTPStatusError"}

\* Variant: the wait is capped at the maximum but has no floor.
WaitExponential_NoFloor(n) ==
    LET result == WaitMultiplier * 2 ^ (n - 1)
    IN IF result < WaitMax THEN result ELSE WaitMax

\* wait_exponential.__call__ for the attempt that just failed.
WaitExponential(n) ==
    LET result == WaitMultiplier * 2 ^ (n - 1)
        capped == IF result < WaitMax THEN result ELSE WaitMax
    IN IF capped > WaitMin THEN capped ELSE WaitMin

\* The retry decorator after an attempt that raised e: re-raise e when it
\* is not of a retried type, give up with RetryError at the attempt
\* ceiling, else sleep and call again.
AfterAttempt(e, n) ==
    IF ~RetryIf(e)
    THEN [chat_pc |-> "raised", exc |-> <<e>>]
    ELSE IF n >= MaxAttempts
         THEN [chat_pc |-> "raised", exc |-> << RetryError(e) >>]
         ELSE [chat_pc |-> "sleep", exc |-> <<>>]

\* What chat hands to its caller.
ChatRaised(e) == [exc |-> e, value |-> <<>>]

ChatReturned(v) == [exc |-> <<>>, value |-> <<v>>]

\* Whether chat is between its entry and its return.
InChat == chat_pc \in {"request", "sleep", "response"}

\* chat, up to the call of _make_request.  The client is used by one
\* thread: chat is not entered while get_summary runs.
ChatEnter(caller, model_arg, model, sampling) ==
    /\ ~InChat
    /\ sum_pc # "running"
    /\ chat_model' = IF model # <<>> THEN model[1]
                     ELSE DEFAULT_ANALYSIS_MODEL
    /\ entry' = [name |-> caller, model |-> model_arg]
    /\ temperature' = sampling
    /\ entry_calls' = entry_calls + 1
    /\ attempt_number' = 1
    /\ attempts' = <<>>
    /\ sleeps' = <<>>
    /\ chat_outcome' = <<>>
    /\ log_before' = usage_log
    /\ chats' = chats + 1
    /\ chat_pc' = "request"
    /\ UNCHANGED << orchVars, usage_log, summaryVars, parseVars, stageVars,
                    moduleVars, sessionVars >>

\* chat is entered MaxChats times at most.
ChatCall(caller, model_arg, model, sampling) ==
    /\ chats < MaxChats
    /\ ChatEnter(caller, model_arg, model, sampling)

\* The default of chat's temperature parameter (0.7), and what research
\* and analyze pass, in tenths.
DefaultTemperature == 7

ResearchTemperature == 3

AnalysisTemperature == 7

\* A call of chat by a caller that leaves the temperature at its default.
Chat ==
    \E model \in ModelArgs :
        ChatCall("chat", model, model, DefaultTemperature)

\* Most calls of a client method where research and analyze are called.
MaxEntryCalls == 2

\* Variant: research with the defaults of analyze.
Research_AnalysisDefaults ==
    /\ entry_calls < MaxEntryCalls
    /\ \E model \in ModelArgs :
          ChatCall("research", model,
                   << IF model # <<>> THEN model[1]
                      ELSE DEFAULT_ANALYSIS_MODEL >>,
                   AnalysisTemperature)

\* OpenRouterClient.research
Research ==
    /\ entry_calls < MaxEntryCalls
    /\ \E model \in ModelArgs :
          ChatCall("research", model,
                   << IF model # <<>> THEN model[1]
                      ELSE DEFAULT_RESEARCH_MODEL >>,
                   ResearchTemperature)

\* OpenRouterClient.analyze
Analyze ==
    /\ entry_calls < MaxEntryCalls
    /\ \E model \in ModelArgs :
          ChatCall("analyze", model,
                   << IF model # <<>> THEN model[1]
                      ELSE DEFAULT_ANALYSIS_MODEL >>,
                   AnalysisTemperature)

\* chat called directly, as often as the two are.
DirectChat == entry_calls < MaxEntryCalls /\ Chat

\* One execution of the body of _make_request and the decision of the
\* retry decorator on it.
MakeRequestFrom(posts) ==
    /\ chat_pc = "request"
    /\ IF chat_model \notin DOMAIN AVAILABLE_MODELS
       THEN LET next == AfterAttempt(UnknownModel(chat_model),
                                     attempt_number)
            IN /\ chat_pc' = next.chat_pc
               /\ chat_outcome' = IF next.exc # <<>>
                                  THEN << ChatRaised(next.exc) >>
                                  ELSE chat_outcome
               /\ attempts' = attempts
       ELSE \E post \in posts :
              /\ attempts' = Append(attempts, post)
              /\ IF AttemptFailure(post) = <<>>
                 THEN /\ chat_pc' = "response"
                      /\ chat_outcome' = chat_outcome
                 ELSE LET next == AfterAttempt(AttemptFailure(post)[1],
                                               attempt_number)
                      IN /\ chat_pc' = next.chat_pc
                         /\ chat_outcome' = IF next.exc # <<>>
                                            THEN << ChatRaised(next.exc) >>
                                            ELSE chat_outcome
    /\ UNCHANGED << orchVars, usage_log, summaryVars, parseVars, chat_model,
                    attempt_number, sleeps, log_before, chats,
                    stageVars, entry, temperature, entry_calls,
                    moduleVars, sessionVars >>

MakeRequest == MakeRequestFrom(PostOutcomes)

\* Variant: the wait never ends.
Sleep_NoWake ==
    /\ chat_pc = "sleep"
    /\ UNCHANGED vars

\* The wait between two attempts.
Sleep ==
    /\ chat_pc = "sleep"
    /\ sleeps' = Append(sleeps, WaitExponential(attempt_number))
    /\ attempt_number' = attempt_number + 1
    /\ chat_pc' = "request"
    /\ UNCHANGED << orchVars, usage_log, summaryVars, parseVars, chat_model,
                    attempts, chat_outcome, log_before, chats,
                    stageVars, entry, temperature, entry_calls,
                    moduleVars, sessionVars >>

\* Variant: total_tokens is always derived from the two counts.
UsageOf_AlwaysSum(model, raw_response) ==
    LET usage_data == raw_response.usage
        input_tokens == IF usage_data # <<>>
                        THEN usage_data[1].prompt_tokens ELSE 0
        output_tokens == IF usage_data # <<>>
                         THEN usage_data[1].completion_tokens ELSE 0
    IN TokenUsage(model, input_tokens, output_tokens,
                  input_tokens + output_tokens,
                  CalculateCost(model, input_tokens, output_tokens))

\* The usage record chat builds from the raw response.
UsageOf(model, raw_response) ==
    LET usage_data == raw_response.usage
        input_tokens == IF usage_data # <<>>
                        THEN usage_data[1].prompt_tokens ELSE 0
        output_tokens == IF usage_data # <<>>
                         THEN usage_data[1].completion_tokens ELSE 0
        total_tokens == IF usage_data # <<>>
                           /\ usage_data[1].total_tokens # <<>>
                        THEN usage_data[1].total_tokens[1]
                        ELSE input_tokens + output_tokens
    IN TokenUsage(model, input_tokens, output_tokens, total_tokens,
                  CalculateCost(model, input_tokens, output_tokens))

LLMResponse(content, model, usage, raw_response) ==
    [content |-> content, model |-> model, usage |-> usage,
     raw_response |-> raw_response]

\* Variant: one record is logged for every attempt of the call.
LogUsage_PerAttempt(log, usage) ==
    log \o [k \in 1..Len(attempts) |-> usage]

\* Variant: the newest record is put first.
LogUsage_Prepend(log, usage) == << usage >> \o log

\* CostTracker.log_usage
LogUsage(log, usage) == Append(log, usage)

\* Variant: the usage is logged before the content is extracted.
ChatRespond_LogFirst ==
    /\ chat_pc = "response"
    /\ LET raw_response == attempts[Len(attempts)].response[1].json
           usage == UsageOf(chat_model, raw_response)
       IN /\ usage_log' = LogUsage(usage_log, usage)
          /\ IF raw_response.choices = <<>>
             THEN /\ chat_outcome' = << ChatRaised(<<KeyError>>) >>
                  /\ chat_pc' = "raised"
             ELSE /\ chat_outcome' =
                       << ChatReturned(LLMResponse(raw_response.choices[1],
                                                   chat_model, usage,
                                                   raw_response)) >>
                  /\ chat_pc' = "returned"
    /\ UNCHANGED << orchVars, summaryVars, parseVars, chat_model,
                    attempt_number, attempts, sleeps, log_before,
                    chats, stageVars, entry, temperature, entry_calls,
                    moduleVars, sessionVars >>

\* chat, after _make_request returned: extract the content, build the
\* usage record, log it, return the LLMResponse.
ChatRespond ==
    /\ chat_pc = "response"
    /\ LET raw_response == attempts[Len(attempts)].response[1].json
           usage == UsageOf(chat_model, raw_response)
       IN IF raw_response.choices = <<>>
          THEN /\ chat_outcome' = << ChatRaised(<<KeyError>>) >>
               /\ chat_pc' = "raised"
               /\ usage_log' = usage_log
          ELSE /\ usage_log' = LogUsage(usage_log, usage)
               /\ chat_outcome' =
                    << ChatReturned(LLMResponse(raw_response.choices[1],
                                                chat_model, usage,
                                                raw_response)) >>
               /\ chat_pc' = "returned"
    /\ UNCHANGED << orchVars, summaryVars, parseVars, chat_model,
                    attempt_number, attempts, sleeps, log_before,
                    chats, stageVars, entry, temperature, entry_calls,
                    moduleVars, sessionVars >>

\* ------------------------------------------------------- reading the ledger
\* The values the dict literal of get_summary evaluates, in its order;
\* get_total_tokens is three sums of its own.
SummaryParts ==
    << "total_cost", "input", "output", "total", "by_model",
       "total_requests" >>

\* One of these values, read from the ledger as it stands: a sum or a loop
\* over a list that only grows yields the value of the list at the moment
\* the iteration ends.
ReadPart(part, log) ==
    CASE part = "total_cost"     -> GetTotalCost(log)
      [] part = "input"          -> SumInputTokens(log)
      [] part = "output"         -> SumOutputTokens(log)
      [] part = "total"          -> SumTotalTokens(log)
      [] part = "by_model"       -> GetUsageByModel(log)
      [] part = "total_requests" -> Len(log)

\* The dict get_summary returns, from its parts.
SummaryDict(parts) ==
    [total_cost |-> parts[1],
     total_tokens |-> [input |-> parts[2], output |-> parts[3],
                       total |-> parts[4]],
     by_model |-> parts[5],
     total_requests |-> parts[6]]

\* get_summary is entered (not from inside chat).
GetSummaryCall ==
    /\ sum_pc # "running"
    /\ ~InChat
    /\ sum_pc' = "running"
    /\ summary' = <<>>
    /\ summary_log' = usage_log
    /\ UNCHANGED << orchVars, usage_log, clientVars, parseVars, stageVars,
                    moduleVars, sessionVars >>

\* get_summary evaluates the next part of its dict; after the last one it
\* returns.
GetSummaryStep ==
    /\ sum_pc = "running"
    /\ summary' = Append(summary,
                         ReadPart(SummaryParts[Len(summary) + 1], usage_log))
    /\ sum_pc' = IF Len(summary) + 1 = Len(SummaryParts) THEN "done"
                 ELSE "running"
    /\ UNCHANGED << orchVars, usage_log, clientVars, parseVars, summary_log,
                    stageVars, moduleVars, sessionVars >>

\* Records another thread logs.
LedgerRecords ==
    { TokenUsage(m, t, 0, t, CalculateCost(m, t, 0)) :
        m \in {DEFAULT_ANALYSIS_MODEL, "openai/gpt-4o-mini"}, t \in {1000} }

\* log_usage called on another thread than get_summary: list.append is one
\* indivisible step.
LogUsageConcurrent ==
    /\ Len(usage_log) < MaxLog
    /\ \E usage \in LedgerRecords : usage_log' = LogUsage(usage_log, usage)
    /\ UNCHANGED << orchVars, clientVars, summaryVars, parseVars, stageVars,
                    moduleVars, sessionVars >>

\* One client used by one thread: chat calls and summaries in any order.
NextClient ==
    \/ Chat
    \/ MakeRequest
    \/ Sleep
    \/ ChatRespond
    \/ GetSummaryCall
    \/ GetSummaryStep

SpecClient == Init /\ [][NextClient]_vars

\* The client called through chat, research and analyze.
NextEntry ==
    \/ DirectChat
    \/ Research
    \/ Analyze
    \/ MakeRequest
    \/ Sleep
    \/ ChatRespond

SpecEntry == Init /\ [][NextEntry]_vars

\* One ledger shared by a logging thread and a summarising thread.
NextLedger ==
    \/ LogUsageConcurrent
    \/ GetSummaryCall
    \/ GetSummaryStep

SpecLedger == Init /\ [][NextLedger]_vars

\* ------------------------------------- the run with its client calls
\* Most items of a run whose client calls are followed attempt by attempt.
MaxLiveItems == 1

\* The transport of such a run: an attempt times out or is answered.
LivePosts ==
    { [exc |-> << ReadTimeout >>, response |-> << >>] }
    \cup { [exc |-> << >>,
            response |-> << [status_code |-> 200, json |-> b] >>] :
             b \in { x \in Bodies : x.choices # << >>
                                    /\ x.usage # << >>
                                    /\ x.usage[1].total_tokens # << >> } }

AtModule ==
    pc \in {"data_ingestion", "audience_research", "usp_extraction",
            "pain_taxonomy", "journey_mapping"}

\* Whether each client call of the module invocation under way returned,
\* in order.  An invocation is known by the number of those before it.
Collected ==
    IF module_chats.serial = NumCalls(trace) THEN module_chats.outs
    ELSE << >>

\* DataIngestionModule.run calls research twice (_research_company,
\* _research_competitors), every other module calls analyze once.
ClientCalls(stage) == IF stage = "data_ingestion" THEN 2 ELSE 1

\* The module has no client call left to make: one raised, which ends
\* its run, or all returned.
ModuleDone ==
    /\ Collected # << >>
    /\ \/ ~Collected[Len(Collected)]
       \/ Len(Collected) = ClientCalls(pc)

\* The module calls the client, with the model it was constructed with.
ModuleRequest ==
    /\ AtModule
    /\ ~ModuleDone
    /\ chat_pc = "idle"
    /\ IF pc = "data_ingestion"
       THEN ChatEnter("research", << DEFAULT_RESEARCH_MODEL >>,
                      << DEFAULT_RESEARCH_MODEL >>, ResearchTemperature)
       ELSE ChatEnter("analyze", << DEFAULT_ANALYSIS_MODEL >>,
                      << DEFAULT_ANALYSIS_MODEL >>, AnalysisTemperature)

LiveMakeRequest == MakeRequestFrom(LivePosts)

\* The client call is over: the module has its response, or the
\* exception, which it does not catch.
ModuleCollect ==
    /\ AtModule
    /\ chat_pc \in {"returned", "raised"}
    /\ module_chats' = [serial |-> NumCalls(trace),
                        outs |-> Append(Collected, chat_pc = "returned")]
    /\ chat_pc' = "idle"
    /\ UNCHANGED << orchVars, usage_log, summaryVars, parseVars, stageVars,
                    chat_model, attempt_number, attempts, sleeps,
                    chat_outcome, log_before, chats, entry,
                    temperature, entry_calls, sessionVars >>

\* The outcomes of a module's run that agree with its client calls: it
\* returns only when all of them returned, and raises the exception of
\* the one that raised or, after them, the one of its own conversion.
\* The ledger was written by the client calls themselves.
LiveOuts(run) ==
    { [o EXCEPT !.usage = << >>] :
        o \in { x \in run :
                  /\ x.ok => \A k \in DOMAIN Collected : Collected[k]
                  /\ ~x.ok =>
                        IF \A k \in DOMAIN Collected : Collected[k]
                        THEN x.exc[1] = ValidationError
                        ELSE x.exc[1].type = chat_outcome[1].exc[1].type
                  /\ Len(x.usage)
                       = Cardinality({ k \in DOMAIN Collected :
                                         Collected[k] }) } }

LiveDataIngestion ==
    ModuleDone /\ DataIngestionWith(LiveOuts(DataIngestionRun))

LiveAudienceResearch ==
    /\ ModuleDone
    /\ AudienceResearchWith(
           LiveOuts({ o \in AudienceResearchRun :
                        o.ok => Len(o.value[1]) <= MaxLiveItems }))

LiveUspExtraction ==
    /\ ModuleDone
    /\ UspExtractionWith(
           LiveOuts(PerItemRun("usp_extraction", icp_result.icp,
                               NumCalls(trace) + 1)))

LivePainTaxonomy ==
    /\ ModuleDone
    /\ PainTaxonomyWith(
           LiveOuts(PerItemRun("pain_taxonomy", icp_result.icp,
                               NumCalls(trace) + 1)))

LiveJourneyMapping ==
    /\ ModuleDone
    /\ JourneyMappingWith(
           LiveOuts(PerItemRun("journey_mapping",
                               JourneyContext(
                                   icp_result.icp,
                                   icp_result.value_proposition,
                                   icp_result.pain_taxonomy),
                               NumCalls(trace) + 1)))

\* The steps of run_research and of the modules and the client it calls,
\* apart from the request attempts.
ProgramStep ==
    \/ RunResearch
    \/ LiveDataIngestion
    \/ LiveAudienceResearch
    \/ ForEachIcp
    \/ LiveUspExtraction
    \/ LivePainTaxonomy
    \/ LiveJourneyMapping
    \/ Compile
    \/ PipelineFailed
    \/ ModuleRequest
    \/ Sleep
    \/ ChatRespond
    \/ ModuleCollect

NextLive == ProgramStep \/ LiveMakeRequest

\* The program goes on while it can, and every request attempt comes to
\* an end.
SpecLive ==
    /\ Init
    /\ [][NextLive]_vars
    /\ WF_vars(ProgramStep)
    /\ WF_vars(LiveMakeRequest)

\* ------------------------------------------- runs that share a tracker
\* Most run_research calls of a session, and most items of each.
MaxRuns == 2

MaxSessionItems == 1

SessionAudienceResearch ==
    AudienceResearchWith({ o \in AudienceResearchRun :
                             o.ok => Len(o.value[1]) <= MaxSessionItems })

\* Variant: the orchestrator of the next run makes a tracker of its own.
RunResearchAgain_NewTracker ==
    /\ pc = "returned"
    /\ session.stored + 1 < MaxRuns
    /\ session' = [stored |-> session.stored + 1,
                   cost_summary |-> << results[1].cost_summary >>]
    /\ usage_log' = << >>
    /\ company_profile' = << >>
    /\ icps' = << >>
    /\ icp_results' = << >>
    /\ raw_research_data' = "empty"
    /\ i' = 0
    /\ icp_result' = NoBundle
    /\ exc' = << >>
    /\ results' = << >>
    /\ trace' = << >>
    /\ pc' = "data_ingestion"
    /\ UNCHANGED << progress_callback, clientVars, summaryVars, parseVars,
                    stageVars, moduleVars >>

\* The application keeps the results of the run that returned and later
\* runs again: an orchestrator constructed with the tracker of the session
\* (a CostTracker is truthy, so `cost_tracker or CostTracker()` keeps it),
\* and run_research entered with fresh result containers.
RunResearchAgain ==
    /\ pc = "returned"
    /\ session.stored + 1 < MaxRuns
    /\ session' = [stored |-> session.stored + 1,
                   cost_summary |-> << results[1].cost_summary >>]
    /\ company_profile' = << >>
    /\ icps' = << >>
    /\ icp_results' = << >>
    /\ raw_research_data' = "empty"
    /\ i' = 0
    /\ icp_result' = NoBundle
    /\ exc' = << >>
    /\ results' = << >>
    /\ trace' = << >>
    /\ pc' = "data_ingestion"
    /\ UNCHANGED << progress_callback, usage_log, clientVars, summaryVars,
                    parseVars, stageVars, moduleVars >>

NextSession ==
    \/ RunResearch
    \/ DataIngestion
    \/ SessionAudienceResearch
    \/ ForEachIcp
    \/ UspExtraction
    \/ PainTaxonomy
    \/ JourneyMapping
    \/ Compile
    \/ PipelineFailed
    \/ RunResearchAgain

\* The application always passes its observer, which does not raise.
InitSession == InitWith({"ok"}) /\ NoText

SpecSession == InitSession /\ [][NextSession]_vars

\* ------------------------------------------------------------ run_stage
\* Most run_stage calls of a behaviour.
MaxStageRuns == 2

\* What callers pass as stage_id: the five names, and names that are none.
StageIdArgs ==
    {"data_ingestion", "audience_research", "usp_extraction",
     "pain_taxonomy", "journey_mapping", "compilation", ""}

\* Most elements of an audience answer in a run_stage call.
MaxStageItems == 1

\* stage_methods: for each stage name what its lambda does when called,
\* here the outcomes the module's run can have.  n numbers the
\* invocation.
StageMethods(kwargs, n) ==
    [stage_id \in {"data_ingestion", "audience_research", "usp_extraction",
                   "pain_taxonomy", "journey_mapping"} |->
        CASE stage_id = "data_ingestion" -> DataIngestionRun
          [] stage_id = "audience_research" ->
               { o \in AudienceResearchRun :
                   Len(o.elements) <= MaxStageItems }
          [] OTHER -> PerItemRun(stage_id, kwargs.icp, n)]

UnknownStage(stage_id) == [type |-> "ValueError", msg |-> stage_id]

\* What run_stage hands to its caller, and the module calls it made.
StageRun(stage_id, invoked, ok, value, exception) ==
    [stage_id |-> stage_id, invoked |-> invoked, ok |-> ok,
     value |-> value, exc |-> exception]

\* Variant: a failing stage is contained and None is returned.
RunStage_Contained ==
    /\ Len(stage_log) < MaxStageRuns
    /\ \E stage_id \in StageIdArgs, icp \in ItemNames :
          LET stage_methods ==
                  StageMethods([icp |-> icp], Len(stage_log) + 1)
          IN IF stage_id \notin DOMAIN stage_methods
             THEN /\ stage_log' =
                       Append(stage_log,
                              StageRun(stage_id, << >>, FALSE, << >>,
                                       << UnknownStage(stage_id) >>))
                  /\ UNCHANGED usage_log
             ELSE \E out \in stage_methods[stage_id] :
                     /\ stage_log' =
                          Append(stage_log,
                                 StageRun(stage_id,
                                          << [stage |-> stage_id,
                                              out |-> out] >>,
                                          TRUE,
                                          IF out.ok THEN out.value
                                          ELSE << >>,
                                          << >>))
                     /\ usage_log' = usage_log \o out.usage
    /\ UNCHANGED << orchVars, clientVars, summaryVars, parseVars, moduleVars,
                    sessionVars >>

\* ResearchOrchestrator.run_stage
RunStage ==
    /\ Len(stage_log) < MaxStageRuns
    /\ \E stage_id \in StageIdArgs, icp \in ItemNames :
          LET stage_methods ==
                  StageMethods([icp |-> icp], Len(stage_log) + 1)
          IN IF stage_id \notin DOMAIN stage_methods
             THEN /\ stage_log' =
                       Append(stage_log,
                              StageRun(stage_id, << >>, FALSE, << >>,
                                       << UnknownStage(stage_id) >>))
                  /\ UNCHANGED usage_log
             ELSE \E out \in stage_methods[stage_id] :
                     /\ stage_log' =
                          Append(stage_log,
                                 StageRun(stage_id,
                                          << [stage |-> stage_id,
                                              out |-> out] >>,
                                          out.ok, out.value, out.exc))
                     /\ usage_log' = usage_log \o out.usage
    /\ UNCHANGED << orchVars, clientVars, summaryVars, parseVars, moduleVars,
                    sessionVars >>

NextStage == RunStage

SpecStage == Init /\ [][NextStage]_vars

\* ------------------------------------------------- model text and JSON
\* Model text is a sequence of tokens: a letter "a", a blank, the three
\* backticks of a code fence as one token, the word json, the quote and
\* the JSON punctuation.  Python's offsets count characters; here they
\* count tokens, so "```json" is 2 wide (7 characters) and "```" 1 (3).
\* The fence token is written FENCE.
Fence == "FENCE"

Quote == "\""

Blank == " "

\* JSON values as json.loads builds them: str, list, dict (a dict keeps
\* its members in insertion order; a key is text, here of one token).
JString(s) == [t |-> "str", s |-> s]

JArray(items) == [t |-> "list", items |-> items]

JObject(members) == [t |-> "dict", members |-> members]

Member(name, value) == [key |-> << name >>, value |-> value]

\* dict[key] = value: a key that is present keeps its place.
DictSet(members, key, value) ==
    IF \E k \in DOMAIN members : members[k].key = key
    THEN [k \in DOMAIN members |->
             IF members[k].key = key THEN [key |-> key, value |-> value]
             ELSE members[k]]
    ELSE Append(members, [key |-> key, value |-> value])

\* name in data / data.get(name, default), for a dict.
HasKey(data, name) ==
    \E k \in DOMAIN data.members : data.members[k].key = << name >>

Get(data, name, default) ==
    IF HasKey(data, name)
    THEN data.members[CHOOSE k \in DOMAIN data.members :
                          data.members[k].key = << name >>].value
    ELSE default

\* json.dumps with its default separators ", " and ": ".
RECURSIVE Serialize(_)
RECURSIVE SerializeItems(_, _)
RECURSIVE SerializeMembers(_, _)
SerializeItems(items, k) ==
    IF k > Len(items) THEN << >>
    ELSE (IF k > 1 THEN << ",", Blank >> ELSE << >>)
         \o Serialize(items[k]) \o SerializeItems(items, k + 1)

SerializeMembers(members, k) ==
    IF k > Len(members) THEN << >>
    ELSE (IF k > 1 THEN << ",", Blank >> ELSE << >>)
         \o << Quote >> \o members[k].key \o << Quote, ":", Blank >>
         \o Serialize(members[k].value) \o SerializeMembers(members, k + 1)

Serialize(x) ==
    CASE x.t = "str"  -> << Quote >> \o x.s \o << Quote >>
      [] x.t = "list" -> << "[" >> \o SerializeItems(x.items, 1) \o << "]" >>
      [] x.t = "dict" ->
           << "{" >> \o SerializeMembers(x.members, 1) \o << "}" >>

\* str.find(sub, start) and str.rfind(sub): 0-based offsets, -1 when sub
\* does not occur.
Occurrences(text, sub) ==
    { p \in 0..(Len(text) - Len(sub)) :
        SubSeq(text, p + 1, p + Len(sub)) = sub }

Find(text, sub, start) ==
    LET found == { p \in Occurrences(text, sub) : p >= start }
    IN IF found = {} THEN -1
       ELSE CHOOSE p \in found : \A q \in found : p <= q

RFind(text, sub) ==
    LET found == Occurrences(text, sub)
    IN IF found = {} THEN -1
       ELSE CHOOSE p \in found : \A q \in found : q <= p

\* text[start:end]
Slice(text, start, end) == SubSeq(text, start + 1, end)

\* str.strip()
RECURSIVE Strip(_)
Strip(text) ==
    IF text # <<>> /\ text[1] = Blank THEN Strip(Tail(text))
    ELSE IF text # <<>> /\ text[Len(text)] = Blank
         THEN Strip(SubSeq(text, 1, Len(text) - 1))
         ELSE text

\* The first lines of every _extract_json: the text between the first
\* "```json" (else the first "```") and the next "```", stripped, when
\* there is such a block.
NarrowToFence(content) ==
    IF Find(content, << Fence, "json" >>, 0) >= 0
    THEN LET start == Find(content, << Fence, "json" >>, 0) + 2
             end == Find(content, << Fence >>, start)
         IN IF end > start THEN Strip(Slice(content, start, end))
            ELSE content
    ELSE IF Find(content, << Fence >>, 0) >= 0
         THEN LET start == Find(content, << Fence >>, 0) + 1
                  end == Find(content, << Fence >>, start)
              IN IF end > start THEN Strip(Slice(content, start, end))
                 ELSE content
         ELSE content

\* "Find array bounds" of the audience extractor.
NarrowToBrackets(content) ==
    LET start_bracket == Find(content, << "[" >>, 0)
        end_bracket == RFind(content, << "]" >>)
    IN IF start_bracket >= 0 /\ end_bracket > start_bracket
       THEN Slice(content, start_bracket, end_bracket + 1)
       ELSE content

\* json.loads, as a recursive-descent parser over the tokens.  A step
\* gives the value read and the next position, or the message of the
\* JSONDecodeError.
Parsed(value, next) ==
    [ok |-> TRUE, value |-> << value >>, next |-> next, msg |-> ""]

JSONDecodeError(msg, at) ==
    [ok |-> FALSE, value |-> << >>, next |-> at, msg |-> msg]

RECURSIVE SkipBlanks(_, _)
SkipBlanks(text, p) ==
    IF p <= Len(text) /\ text[p] = Blank THEN SkipBlanks(text, p + 1)
    ELSE p

\* A string literal that opens at p.
ParseString(text, p) ==
    LET closing == { q \in (p + 1)..Len(text) : text[q] = Quote }
    IN IF closing = {}
       THEN JSONDecodeError("Unterminated string starting at", p)
       ELSE LET q == CHOOSE q \in closing : \A r \in closing : q <= r
            IN Parsed(JString(SubSeq(text, p + 1, q - 1)), q + 1)

RECURSIVE ParseValue(_, _)
RECURSIVE ParseElements(_, _, _)
RECURSIVE ParseMembers(_, _, _)
ParseElements(text, p, items) ==
    LET element == ParseValue(text, p)
        after == SkipBlanks(text, element.next)
    IN IF ~element.ok THEN element
       ELSE IF after <= Len(text) /\ text[after] = ","
            THEN ParseElements(text, after + 1,
                               Append(items, element.value[1]))
            ELSE IF after <= Len(text) /\ text[after] = "]"
                 THEN Parsed(JArray(Append(items, element.value[1])),
                             after + 1)
                 ELSE JSONDecodeError("Expecting ',' delimiter", after)

ParseMembers(text, p, members) ==
    LET at == SkipBlanks(text, p)
    IN IF at > Len(text) \/ text[at] # Quote
       THEN JSONDecodeError(
                "Expecting property name enclosed in double quotes", at)
       ELSE LET key == ParseString(text, at)
                colon == SkipBlanks(text, key.next)
            IN IF ~key.ok THEN key
               ELSE IF colon > Len(text) \/ text[colon] # ":"
                    THEN JSONDecodeError("Expecting ':' delimiter", colon)
                    ELSE LET value == ParseValue(text, colon + 1)
                             after == SkipBlanks(text, value.next)
                             dict == DictSet(members, key.value[1].s,
                                             value.value[1])
                         IN IF ~value.ok THEN value
                            ELSE IF after <= Len(text) /\ text[after] = ","
                                 THEN ParseMembers(text, after + 1, dict)
                                 ELSE IF after <= Len(text)
                                         /\ text[after] = "}"
                                      THEN Parsed(JObject(dict), after + 1)
                                      ELSE JSONDecodeError(
                                               "Expecting ',' delimiter",
                                               after)

ParseValue(text, p) ==
    LET at == SkipBlanks(text, p)
        inside == SkipBlanks(text, at + 1)
    IN IF at > Len(text) THEN JSONDecodeError("Expecting value", at)
       ELSE CASE text[at] = Quote -> ParseString(text, at)
              [] text[at] = "[" ->
                   IF inside <= Len(text) /\ text[inside] = "]"
                   THEN Parsed(JArray(<< >>), inside + 1)
                   ELSE ParseElements(text, at + 1, << >>)
              [] text[at] = "{" ->
                   IF inside <= Len(text) /\ text[inside] = "}"
                   THEN Parsed(JObject(<< >>), inside + 1)
                   ELSE ParseMembers(text, at + 1, << >>)
              [] OTHER -> JSONDecodeError("Expecting value", at)

JsonLoads(text) ==
    LET value == ParseValue(text, 1)
        after == SkipBlanks(text, value.next)
    IN IF value.ok /\ after <= Len(text)
       THEN JSONDecodeError("Extra data", after)
       ELSE value

\* str(e) of a JSONDecodeError: the message and the offset.
ErrorText(e) == << e.msg, ToString(e.next - 1) >>

\* AudienceResearchModule._extract_json
AudienceExtractJson(content) ==
    LET data == JsonLoads(NarrowToBrackets(NarrowToFence(content)))
    IN IF data.ok
       THEN IF data.value[1].t = "list" THEN data.value[1]
            ELSE JArray(<< data.value[1] >>)
       ELSE JArray(<< >>)

\* DataIngestionModule._extract_json
IngestionExtractJson(content) ==
    LET narrowed == NarrowToFence(content)
        data == JsonLoads(narrowed)
    IN IF data.ok THEN data.value[1]
       ELSE JObject(<< Member("raw_content", JString(narrowed)),
                       Member("parse_error", JString(ErrorText(data))) >>)

\* USPExtractionModule._extract_json, and the same method of
\* PainTaxonomyModule and JourneyMappingModule.
UspExtractJson(content) ==
    LET data == JsonLoads(NarrowToFence(content))
    IN IF data.ok THEN data.value[1] ELSE JObject(<< >>)

\* ------------------------------------------- parsing a model's answer
\* What a module makes of the extracted structure: the record it
\* returns, or the exception the conversion raises.
Built(record) == [ok |-> TRUE, value |-> << record >>, exc |-> ""]

Failing(exception) == [ok |-> FALSE, value |-> << >>, exc |-> exception]

CompanyProfile(name, website_url, overview, industry, business_model) ==
    [name |-> name, website_url |-> website_url, overview |-> overview,
     industry |-> industry, business_model |-> business_model,
     products_services |-> << >>, stated_value_propositions |-> << >>,
     competitors |-> << >>]

\* DataIngestionModule._fallback_parse
FallbackParse(client_input) ==
    CompanyProfile(<< client_input.client_name >>,
                   client_input.website_url,
                   << client_input.client_name, "is a company in the",
                      client_input.industry, "industry." >>,
                   client_input.industry,
                   client_input.business_model)

\* str(value) of an enum member's value, letter by letter.
CanonicalText(v) ==
    CASE v = "B2B"  -> << "B", "2", "B" >>
      [] v = "B2C"  -> << "B", "2", "C" >>
      [] v = "Both" -> << "B", "o", "t", "h" >>

\* str.lower(): the capital letters of these texts.
LowerLetter(c) ==
    CASE c = "B" -> "b"
      [] c = "C" -> "c"
      [] OTHER -> c

Lower(text) == [k \in DOMAIN text |-> LowerLetter(text[k])]

\* sub in text
In(sub, text) == Occurrences(text, sub) # {}

\* The business model _parse_company_profile reads from the text.
ParseBusinessModel(bm_str) ==
    IF In(<< "b", "2", "b" >>, bm_str) /\ In(<< "b", "2", "c" >>, bm_str)
    THEN "Both"
    ELSE IF In(<< "b", "2", "c" >>, bm_str) THEN "B2C"
    ELSE "B2B"

\* Variant: the parse_error key is not looked at.
ParseCompanyProfile_NoFallback(company_data, competitor_data, client_input) ==
    IF company_data.t # "dict" \/ competitor_data.t # "dict"
    THEN Failing("AttributeError")
    ELSE LET name == Get(company_data, "name",
                         JString(<< client_input.client_name >>))
             bm == Get(company_data, "business_model", JString(<< >>))
         IN IF bm.t # "str" THEN Failing("AttributeError")
            ELSE IF name.t # "str" THEN Failing("ValidationError")
            ELSE Built(CompanyProfile(name.s, client_input.website_url,
                                      << >>, client_input.industry,
                                      ParseBusinessModel(Lower(bm.s))))

\* DataIngestionModule._parse_company_profile.  The texts of the model
\* give a dict no key but name and business_model that the method reads,
\* so every other field takes its default; a business model that is no
\* str has no lower(), a name that is no str fails validation, and .get
\* on anything but a dict raises.
ParseCompanyProfile(company_data, competitor_data, client_input) ==
    IF company_data.t = "dict" /\ HasKey(company_data, "parse_error")
    THEN Built(FallbackParse(client_input))
    ELSE IF company_data.t # "dict" \/ competitor_data.t # "dict"
         THEN Failing("AttributeError")
         ELSE LET name == Get(company_data, "name",
                              JString(<< client_input.client_name >>))
                  bm == Get(company_data, "business_model",
                            JString(<< >>))
              IN IF bm.t # "str" THEN Failing("AttributeError")
                 ELSE IF name.t # "str" THEN Failing("ValidationError")
                 ELSE Built(CompanyProfile(name.s,
                                           client_input.website_url,
                                           << >>,
                                           client_input.industry,
                                           ParseBusinessModel(
                                               Lower(bm.s))))

\* USPExtractionModule._parse_vpc
ParseVpc(data, icp) ==
    IF data.t # "dict" THEN Failing("AttributeError")
    ELSE LET statement == Get(data, "value_proposition_statement",
                              JString(<< >>))
         IN IF statement.t # "str" THEN Failing("ValidationError")
            ELSE Built([icp_name |-> icp, customer_pains |-> << >>,
                        customer_gains |-> << >>, pain_relievers |-> << >>,
                        gain_creators |-> << >>,
                        value_proposition_statement |-> statement.s,
                        fit_score |-> 0])

\* PainTaxonomyModule._parse_taxonomy
ParseTaxonomy(data, icp) ==
    IF data.t # "dict" THEN Failing("AttributeError")
    ELSE Built([icp_name |-> icp, functional_pains |-> << >>,
                financial_pains |-> << >>, emotional_pains |-> << >>,
                pain_priority_ranking |-> << >>,
                messaging_implications |-> << >>])

\* JourneyMappingModule._parse_journey: parse_stage gives None for the
\* empty dict a missing stage defaults to.
ParseJourney(data, icp) ==
    IF data.t # "dict" THEN Failing("AttributeError")
    ELSE Built([icp_name |-> icp, overall_timeline |-> << >>,
                awareness_stage |-> << >>, consideration_stage |-> << >>,
                decision_stage |-> << >>, onboarding_stage |-> << >>,
                expansion_stage |-> << >>,
                cross_stage_recommendations |-> << >>,
                content_calendar_priorities |-> << >>])

\* ---- the texts
\* Most elements of an array in a text.
MaxElems == 2

\* String contents: a word, a word between two code fences, a word in
\* square brackets.
Words == { << "a" >>, << Fence, "a", Fence >>, << "[", "a", "]" >> }

MemberValues ==
    { JString(w) : w \in Words } \cup { JArray(<< JString(<< "a" >>) >>) }

Elements == { JObject(<< Member("name", v) >>) : v \in MemberValues }

\* What an answer says of the business model: the text of one of the
\* enum values, both abbreviations, or a list.
BusinessModelValues ==
    { JString(CanonicalText(v)) : v \in BusinessModelType }
    \cup { JString(<< "B", "2", "B", "/", "B", "2", "C" >>),
           JArray(<< JString(<< "a" >>) >>) }

Objects ==
    { JObject(<< >>) } \cup Elements
    \cup { JObject(<< Member("name", JString(<< "a" >>)),
                      Member("business_model", v) >>) :
             v \in BusinessModelValues }
    \cup { JObject(<< Member("name", JString(<< "a" >>)),
                      Member("value_proposition_statement", v) >>) :
             v \in MemberValues }

Arrays ==
    { JArray(items) :
        items \in UNION { [1..n -> Elements] : n \in 0..MaxElems } }

\* How an answer is written: the serialization alone, the serialization
\* in a fenced block inside prose, inside prose without a fence, or cut
\* off before its last token (alone or in a fenced block).
Fences == { << Fence, "json" >>, << Fence >> }

Origins ==
    { [kind |-> k, fence |-> << >>, value |-> << x >>] :
        k \in {"serialized", "prose", "truncated"},
        x \in Objects \cup Arrays }
    \cup { [kind |-> k, fence |-> f, value |-> << x >>] :
             k \in {"fenced", "fenced truncated"}, f \in Fences,
             x \in Objects \cup Arrays }

Truncated(text) == SubSeq(text, 1, Len(text) - 1)

InFence(fence, text) ==
    << "a", Blank >> \o fence \o << Blank >> \o text
    \o << Blank, Fence, Blank, "a" >>

TextOf(o) ==
    CASE o.kind = "serialized" -> Serialize(o.value[1])
      [] o.kind = "prose" ->
           << "a", Blank >> \o Serialize(o.value[1]) \o << Blank, "a" >>
      [] o.kind = "truncated" -> Truncated(Serialize(o.value[1]))
      [] o.kind = "fenced" -> InFence(o.fence, Serialize(o.value[1]))
      [] o.kind = "fenced truncated" ->
           InFence(o.fence, Truncated(Serialize(o.value[1])))

\* The answer to the competitor research: an empty object, or cut off.
CompetitorContents == { << "{", "}" >>, << "{" >> }

\* A model's answer is to be parsed.
InitParse ==
    /\ InitWith({"none"})
    /\ origin \in Origins
    /\ response_content = TextOf(origin)
    /\ parse_module = ""
    /\ extracted = << >>
    /\ module_result = << >>
    /\ given_input \in ClientInputs

\* AudienceResearchModule.run, the extraction of the answer.
AudienceExtract ==
    /\ parse_module = ""
    /\ origin # NoOrigin
    /\ parse_module' = "audience_research"
    /\ extracted' = << AudienceExtractJson(response_content) >>
    /\ UNCHANGED << orchVars, usage_log, clientVars, summaryVars,
                    response_content, origin, given_input, module_result, stageVars,
                    moduleVars, sessionVars >>

\* DataIngestionModule.run after the two research calls.
IngestionParse ==
    /\ parse_module = ""
    /\ origin # NoOrigin
    /\ \E competitor_content \in CompetitorContents :
          LET company_data == IngestionExtractJson(response_content)
              competitor_data == IngestionExtractJson(competitor_content)
              profile == ParseCompanyProfile(company_data, competitor_data,
                                             given_input)
          IN /\ extracted' = << company_data >>
             /\ module_result' =
                  << IF profile.ok
                     THEN Built([company_profile |-> profile.value[1],
                                 raw_data |->
                                   [company_research |-> company_data,
                                    competitor_research |->
                                      competitor_data]])
                     ELSE profile >>
    /\ parse_module' = "data_ingestion"
    /\ UNCHANGED << orchVars, usage_log, clientVars, summaryVars,
                    response_content, origin, given_input, stageVars, moduleVars,
                    sessionVars >>

\* USPExtractionModule.run after the analyze call.
UspParse ==
    /\ parse_module = ""
    /\ origin # NoOrigin
    /\ \E icp \in ItemNames :
          LET vpc_data == UspExtractJson(response_content)
          IN /\ extracted' = << vpc_data >>
             /\ module_result' = << ParseVpc(vpc_data, icp) >>
    /\ parse_module' = "usp_extraction"
    /\ UNCHANGED << orchVars, usage_log, clientVars, summaryVars,
                    response_content, origin, given_input, stageVars, moduleVars,
                    sessionVars >>

\* PainTaxonomyModule.run after the analyze call.
PainParse ==
    /\ parse_module = ""
    /\ origin # NoOrigin
    /\ \E icp \in ItemNames :
          LET taxonomy_data == UspExtractJson(response_content)
          IN /\ extracted' = << taxonomy_data >>
             /\ module_result' = << ParseTaxonomy(taxonomy_data, icp) >>
    /\ parse_module' = "pain_taxonomy"
    /\ UNCHANGED << orchVars, usage_log, clientVars, summaryVars,
                    response_content, origin, given_input, stageVars, moduleVars,
                    sessionVars >>

\* JourneyMappingModule.run after the analyze call.
JourneyParse ==
    /\ parse_module = ""
    /\ origin # NoOrigin
    /\ \E icp \in ItemNames :
          LET journey_data == UspExtractJson(response_content)
          IN /\ extracted' = << journey_data >>
             /\ module_result' = << ParseJourney(journey_data, icp) >>
    /\ parse_module' = "journey_mapping"
    /\ UNCHANGED << orchVars, usage_log, clientVars, summaryVars,
                    response_content, origin, given_input, stageVars, moduleVars,
                    sessionVars >>

NextParse ==
    \/ AudienceExtract
    \/ IngestionParse
    \/ UspParse
    \/ PainParse
    \/ JourneyParse

SpecParse == InitParse /\ [][NextParse]_vars

\* ------------------------------------------------- reading the history
\* The module invocations of the run, in order.
CallSeq == SelectSeq(trace, LAMBDA x : x.kind = "call")

\* The invocations of one stage that raised / that returned.
Raised(stage) ==
    { k \in DOMAIN CallSeq : CallSeq[k].stage = stage /\ CallSeq[k].raised }

Returned(stage) ==
    { k \in DOMAIN CallSeq : CallSeq[k].stage = stage /\ ~CallSeq[k].raised }

ItemStageSet == { PerItemStages[k] : k \in DOMAIN PerItemStages }

\* The per-item invocations that raised.
ItemFailures ==
    { k \in DOMAIN CallSeq :
        CallSeq[k].stage \in ItemStageSet /\ CallSeq[k].raised }

HasReturned == pc = "returned"

\* (C1) run_research never lets an exception out: it cannot stop anywhere
\* but at its return, it always hands back a result, and the result's error
\* is the description of the exception that reached the outer handler and
\* is None when none did.
C1_AlwaysReturnsResult ==
    /\ pc # "raised"
    /\ (pc \notin {"returned", "raised"}) => ENABLED Next
    /\ HasReturned =>
         /\ Len(results) = 1
         /\ results[1].error =
              (IF exc = <<>> THEN <<>> ELSE << Str(exc[1]) >>)
         /\ (Raised("data_ingestion") \cup Raised("audience_research") # {})
              => results[1].error # <<>>

C1_Witness ==
    /\ HasReturned
    /\ Raised("audience_research") # {}
    /\ results[1].error # <<>>

\* (C2) When data ingestion raised, the result has a non-empty error, no
\* items and no company profile.
C2_IngestionFailureAborts ==
    (HasReturned /\ Raised("data_ingestion") # {}) =>
        /\ results[1].error # <<>>
        /\ results[1].error[1] # ""
        /\ results[1].icps = <<>>
        /\ results[1].company_profile = <<>>

C2_Witness ==
    /\ HasReturned
    /\ Raised("data_ingestion") # {}
    /\ progress_callback = "ok"

\* (C3) When audience generation raised after ingestion returned, the
\* result has its error set and no items, and still carries the profile
\* and the raw research payloads ingestion produced.
C3_AudienceFailureKeepsIngestion ==
    (HasReturned /\ Returned("data_ingestion") # {}
                 /\ Raised("audience_research") # {}) =>
        /\ results[1].error # <<>>
        /\ results[1].icps = <<>>
        /\ results[1].company_profile # <<>>
        /\ results[1].company_profile = company_profile
        /\ results[1].raw_research_data = "raw"

C3_Witness ==
    /\ HasReturned
    /\ Returned("data_ingestion") # {}
    /\ Raised("audience_research") # {}
    /\ results[1].company_profile = <<"fallback">>

\* (C4) After an invocation of ingestion or audience generation that
\* raised, the history holds no further module invocation and no further
\* "running" event.
C4_NoStageAfterFatalFailure ==
    \A k \in DOMAIN trace :
        (/\ trace[k].kind = "call"
         /\ trace[k].stage \in {"data_ingestion", "audience_research"}
         /\ trace[k].raised)
        => \A j \in DOMAIN trace :
              j > k => /\ trace[j].kind = "event"
                       /\ trace[j].status # "running"

C4_Witness ==
    /\ HasReturned
    /\ Raised("data_ingestion") # {}
    /\ \E k \in DOMAIN trace :
          /\ k > 1
          /\ trace[k].kind = "event"
          /\ trace[k].status = "error"
          /\ trace[k - 1].kind = "call"

\* The bundle of item k in a run in which no per-item stage raises: the
\* k-th item with the outputs of invocations 3k, 3k+1 and 3k+2.
FullBundle(k) ==
    LET icp == icps[k]
        vp  == Output("usp_extraction", icp, 3 * k)
        pt  == Output("pain_taxonomy", icp, 3 * k + 1)
    IN [icp |-> icp,
        value_proposition |-> << vp >>,
        pain_taxonomy |-> << pt >>,
        journey_map |-> << Output("journey_mapping",
                                  JourneyContext(icp, <<vp>>, <<pt>>),
                                  3 * k + 2) >>]

\* The field of a bundle a per-item stage fills.
Field(bundle, stage) ==
    CASE stage = "usp_extraction"  -> bundle.value_proposition
      [] stage = "pain_taxonomy"   -> bundle.pain_taxonomy
      [] stage = "journey_mapping" -> bundle.journey_map

NoFatalFailure ==
    /\ Returned("data_ingestion") # {}
    /\ Returned("audience_research") # {}

C7_EmptyItemsOnlyOnAbort ==
    (HasReturned /\ results[1].icps = <<>>) => results[1].error # <<>>

ExpectedCall(k) ==
    IF k = 1 THEN << "data_ingestion", 0 >>
    ELSE IF k = 2 THEN << "audience_research", 0 >>
    ELSE << PerItemStages[((k - 3) % 3) + 1], ((k - 3) \div 3) + 1 >>

Events(stage_id, statuses) ==
    { j \in DOMAIN trace :
        /\ trace[j].kind = "event"
        /\ trace[j].stage_id = stage_id
        /\ trace[j].status \in statuses }

\* The identifier the events of the k-th invocation carry.
EventId(k) ==
    IF CallSeq[k].idx = 0 THEN CallSeq[k].stage
    ELSE StageId(CallSeq[k].stage, CallSeq[k].idx)

TimedOut(k) == attempts[k].exc = << ReadTimeout >>

StatusOf(k) ==
    IF attempts[k].response = <<>> THEN 0
    ELSE attempts[k].response[1].status_code

\* A transient failure: a timeout or a server-side (5xx) status.
TransientFailure(k) == TimedOut(k) \/ StatusOf(k) >= 500

\* A timeout or any HTTP status error.
TimeoutOrStatusError(k) == TimedOut(k) \/ StatusOf(k) >= 400

\* The server rejected the credentials (401) or the request (422).
Rejection(k) == StatusOf(k) \in {401, 422}

\* A 200 answer that carries a completion.
Succeeded(k) ==
    /\ StatusOf(k) = 200
    /\ attempts[k].response[1].json.choices # <<>>

\* (C12) A call whose first two attempts fail with a transient error and
\* whose third attempt succeeds is never failed: it returns the response of
\* the third attempt, and at its return the ledger is the ledger of before
\* the call with exactly one record added, the record of that response.
C12_ThirdAttemptSucceeds ==
    ( /\ Len(attempts) = 3
      /\ TransientFailure(1)
      /\ TransientFailure(2)
      /\ Succeeded(3) ) =>
        /\ chat_pc \in {"response", "returned"}
        /\ (chat_pc = "response") => usage_log = log_before
        /\ (chat_pc = "returned") =>
              /\ chat_outcome[1].exc = <<>>
              /\ chat_outcome[1].value[1].raw_response =
                   attempts[3].response[1].json
              /\ Len(usage_log) = Len(log_before) + 1
              /\ usage_log =
                   Append(log_before, chat_outcome[1].value[1].usage)

C12_Witness ==
    /\ chat_pc = "returned"
    /\ Len(attempts) = 3
    /\ TimedOut(1)
    /\ StatusOf(2) = 503
    /\ Succeeded(3)
    /\ log_before # <<>>

\* (C13) A chat call makes at most 3 POSTs; every POST but the last one of
\* a call failed with a timeout or an HTTP status error; and a call that
\* raised because its last POST failed that way has made all 3.
C13_AtMostThreeAttempts ==
    /\ Len(attempts) <= 3
    /\ \A k \in 1..(Len(attempts) - 1) : TimeoutOrStatusError(k)
    /\ ( /\ chat_pc = "raised"
         /\ attempts # <<>>
         /\ TimeoutOrStatusError(Len(attempts)) ) => Len(attempts) = 3

C13_Witness ==
    /\ chat_pc = "raised"
    /\ Len(attempts) = 3
    /\ TimedOut(1)
    /\ StatusOf(2) = 503
    /\ TimedOut(3)

\* (C14) When all attempts of a call failed with a transient error and the
\* attempt ceiling is reached, the exception chat raises is the exception
\* of the last attempt itself: same type, same description.
C14_LastFailureDeliveredUntouched ==
    ( /\ chat_pc = "raised"
      /\ Len(attempts) = MaxAttempts
      /\ \A k \in DOMAIN attempts : TransientFailure(k) ) =>
        chat_outcome[1].exc = AttemptFailure(attempts[Len(attempts)])

\* (C15) A POST the server rejects (401, 422) is the only POST of its call:
\* the call raises that rejection right away, with no wait and no second
\* attempt.
C15_RejectionIsNotRetried ==
    \A k \in DOMAIN attempts :
        Rejection(k) =>
            /\ Len(attempts) = 1
            /\ sleeps = <<>>
            /\ chat_pc = "raised"
            /\ chat_outcome[1].exc = AttemptFailure(attempts[1])

\* (C16) A chat call whose model id is not in the catalogue makes no POST
\* and no wait, leaves the ledger as it was, and raises the ValueError of
\* the catalogue lookup in its first step.
C16_UnknownModelFailsAtOnce ==
    (chat_pc # "idle" /\ chat_model \notin DOMAIN AVAILABLE_MODELS) =>
        /\ attempts = <<>>
        /\ sleeps = <<>>
        /\ usage_log = log_before
        /\ attempt_number = 1
        /\ chat_pc \in {"request", "raised"}
        /\ (chat_pc = "raised") =>
              chat_outcome[1].exc = << UnknownModel(chat_model) >>

C16_Witness ==
    /\ chat_pc = "raised"
    /\ chat_model = "unknown/model"
    /\ chat_outcome[1].exc[1].type = "ValueError"
    /\ log_before # <<>>

\* (C17) While a chat call runs the ledger is the ledger of before the
\* call; a call that returned has appended exactly one record to it, the
\* one it returns; a call that raised has left it as it was.
C17_OneRecordPerSuccessfulCall ==
    /\ InChat => usage_log = log_before
    /\ (chat_pc = "raised") => usage_log = log_before
    /\ (chat_pc = "returned") =>
          /\ Len(usage_log) = Len(log_before) + 1
          /\ usage_log = Append(log_before, chat_outcome[1].value[1].usage)

C17_Witness ==
    /\ chat_pc = "raised"
    /\ chat_outcome[1].exc = << KeyError >>
    /\ Len(attempts) = 3
    /\ log_before # <<>>

\* (C18) Every summary get_summary returns while another thread logs is
\* the summary of one prefix of the ledger, a prefix the ledger was equal
\* to at some moment of the get_summary call.
C18_SummaryIsOneSnapshot ==
    (sum_pc = "done") =>
        \E n \in Len(summary_log)..Len(usage_log) :
            SummaryDict(summary) = GetSummary(SubSeq(usage_log, 1, n))

\* sum of log[k][field] over the positions k in K
RECURSIVE SumOver(_, _, _)
SumOver(log, K, field) ==
    IF K = {} THEN 0
    ELSE LET k == CHOOSE x \in K : TRUE
         IN log[k][field] + SumOver(log, K \ {k}, field)

\* The positions of the records of one model.
RecordsOf(log, model) == { k \in DOMAIN log : log[k].model = model }

\* (C19) The summary of a ledger of N records has total_requests N, the
\* sums of the records' cost and token counts as totals, and for exactly
\* the models that have a record a breakdown entry holding the number and
\* the sums of the records of that model; for N = 0 every total is zero and
\* the breakdown is empty.
C19_SummaryIsFoldOfLedger ==
    (sum_pc = "done") =>
        LET s == SummaryDict(summary)
            log == summary_log
        IN /\ s = GetSummary(log)
           /\ s.total_requests = Len(log)
           /\ s.total_cost = SumOver(log, DOMAIN log, "estimated_cost")
           /\ s.total_tokens.input = SumOver(log, DOMAIN log, "input_tokens")
           /\ s.total_tokens.output =
                SumOver(log, DOMAIN log, "output_tokens")
           /\ s.total_tokens.total = SumOver(log, DOMAIN log, "total_tokens")
           /\ DOMAIN s.by_model = { log[k].model : k \in DOMAIN log }
           /\ \A m \in DOMAIN s.by_model :
                 LET K == RecordsOf(log, m)
                 IN /\ s.by_model[m].requests = Cardinality(K)
                    /\ s.by_model[m].input_tokens =
                         SumOver(log, K, "input_tokens")
                    /\ s.by_model[m].output_tokens =
                         SumOver(log, K, "output_tokens")
                    /\ s.by_model[m].total_tokens =
                         SumOver(log, K, "total_tokens")
                    /\ s.by_model[m].cost = SumOver(log, K, "estimated_cost")
           /\ (log = <<>>) =>
                 /\ s.total_requests = 0
                 /\ s.total_cost = 0
                 /\ s.total_tokens = [input |-> 0, output |-> 0, total |-> 0]
                 /\ DOMAIN s.by_model = {}

C19_Witness ==
    /\ sum_pc = "done"
    /\ Len(summary_log) = 3
    /\ Cardinality(RecordsOf(summary_log, DEFAULT_ANALYSIS_MODEL)) = 2
    /\ Cardinality(RecordsOf(summary_log, "openai/gpt-4o-mini")) = 1
    /\ summary_log[1] # summary_log[3]

\* (C20) The cost summary of every result run_research returns, with or
\* without error, is the summary of the ledger as it is at the return: its
\* total_requests is the number of records in the ledger, which is the
\* number of client calls of the run that returned.
C20_CostSummaryMatchesLedger ==
    HasReturned =>
        /\ results[1].cost_summary = GetSummary(usage_log)
        /\ results[1].cost_summary.total_requests = Len(usage_log)
        /\ Len(usage_log) = Sum(CallSeq, "logged")

C20_Witness ==
    /\ HasReturned
    /\ results[1].error # <<>>
    /\ results[1].cost_summary.total_requests = 1
    /\ Raised("data_ingestion") # {}

\* The catalogue prices of a model, in cents per million tokens.
InputPrice(model) == AVAILABLE_MODELS[model].input_price_per_million

OutputPrice(model) == AVAILABLE_MODELS[model].output_price_per_million

\* (C21) Every ledger record is of a catalogue model, and its estimated
\* cost is its input tokens at the input price of its model plus its output
\* tokens at the output price of its model (prices per million tokens; in
\* the cost unit of the model the division by one million is taken out).
C21_CostFollowsPriceTable ==
    \A k \in DOMAIN usage_log :
        LET u == usage_log[k]
        IN /\ u.model \in DOMAIN AVAILABLE_MODELS
           /\ u.estimated_cost =
                u.input_tokens * InputPrice(u.model)
                + u.output_tokens * OutputPrice(u.model)
           /\ u.estimated_cost =
                CalculateCost(u.model, u.input_tokens, u.output_tokens)

C21_Witness ==
    /\ Len(usage_log) = 2
    /\ usage_log[1].model = "openai/gpt-4o-mini"
    /\ usage_log[1].estimated_cost = 1000 * 15 + 500 * 60
    /\ usage_log[2].model = DEFAULT_ANALYSIS_MODEL
    /\ usage_log[2].estimated_cost = 2000 * 300 + 100 * 1500

\* The raw response of the call that just returned, and the record it
\* logged.
LastResponse == attempts[Len(attempts)].response[1].json

LastRecord == usage_log[Len(usage_log)]

\* (C22) The record of a call that returned has the provider's total-token
\* field as total_tokens when the response carries one, else the sum of
\* its input and output tokens; its input and output tokens are the
\* provider's prompt and completion counts (0 without a usage block).
C22_TotalTokensFromProvider ==
    (chat_pc = "returned") =>
        /\ LastRecord = chat_outcome[1].value[1].usage
        /\ IF LastResponse.usage # <<>>
           THEN /\ LastRecord.input_tokens =
                     LastResponse.usage[1].prompt_tokens
                /\ LastRecord.output_tokens =
                     LastResponse.usage[1].completion_tokens
                /\ LastRecord.total_tokens =
                     (IF LastResponse.usage[1].total_tokens # <<>>
                      THEN LastResponse.usage[1].total_tokens[1]
                      ELSE LastRecord.input_tokens
                           + LastRecord.output_tokens)
           ELSE /\ LastRecord.input_tokens = 0
                /\ LastRecord.output_tokens = 0
                /\ LastRecord.total_tokens = 0

C22_Witness ==
    /\ chat_pc = "returned"
    /\ LastResponse.usage # <<>>
    /\ LastResponse.usage[1].total_tokens = << 1600 >>
    /\ LastRecord.total_tokens = 1600
    /\ LastRecord.input_tokens + LastRecord.output_tokens = 1500

\* ---- helpers for the claims about parsing
IsTruncated == origin.kind \in {"truncated", "fenced truncated"}

Written == origin.value[1]

ArrayExtractor == parse_module = "audience_research"

ObjectExtractor ==
    parse_module \in {"data_ingestion", "usp_extraction", "pain_taxonomy",
                      "journey_mapping"}

\* The value each _extract_json documents for text json.loads rejects.
IsParseFailureValue ==
    CASE parse_module = "audience_research" -> extracted[1] = JArray(<< >>)
      [] parse_module = "data_ingestion" ->
           /\ extracted[1].t = "dict"
           /\ HasKey(extracted[1], "parse_error")
      [] OTHER -> extracted[1] = JObject(<< >>)

\* C23: no extractor raises on any text; the array extractor returns the
\* array of a text that holds a valid JSON array in a fenced block
\* inside prose; every extractor returns its parse-failure value for
\* broken JSON.
C23_ExtractorTolerance ==
    (parse_module # "") =>
        /\ extracted # << >>
        /\ (ArrayExtractor /\ origin.kind = "fenced"
            /\ Written.t = "list") => extracted[1] = Written
        /\ IsTruncated => IsParseFailureValue

\* C24: the array extractor returns a single JSON object as the only
\* element of a one-element sequence, also when the object contains
\* arrays.
C24_SingleObjectIsWrapped ==
    (ArrayExtractor /\ origin.kind = "serialized" /\ Written.t = "dict")
        => extracted[1] = JArray(<< Written >>)

\* C25: on a parse failure the object-shaped extractor returns a value
\* that carries the parser's error description and the text exactly as
\* it was passed in.
C25_FailureCarriesErrorAndRawText ==
    (ObjectExtractor /\ IsTruncated) =>
        /\ extracted[1].t = "dict"
        /\ HasKey(extracted[1], "parse_error")
        /\ HasKey(extracted[1], "raw_content")
        /\ Get(extracted[1], "raw_content", JString(<< >>))
             = JString(response_content)

\* C26: extracting from the JSON serialization of a value returns the
\* value, an object for the object-shaped extractors and an array of
\* objects for the array extractor, whatever its strings contain.
C26_ExtractorRoundTrip ==
    (parse_module # "" /\ origin.kind = "serialized") =>
        /\ (ObjectExtractor /\ Written.t = "dict") => extracted[1] = Written
        /\ (ArrayExtractor /\ Written.t = "list") => extracted[1] = Written

\* json.loads rejected the text the object-shaped extractor parsed.
ParseFailed == ~JsonLoads(NarrowToFence(response_content)).ok

\* The stage block of run_research around a module that behaved as
\* module_result says (no observer interferes).
StageBlock ==
    LET r == module_result[1]
        out == [ok |-> r.ok, value |-> r.value,
                exc |-> IF r.ok THEN << >>
                        ELSE << [type |-> r.exc, msg |-> r.exc] >>,
                reply |-> "", elements |-> << >>, usage |-> << >>]
    IN TryStage(<< >>, parse_module, [kind |-> "call"], out, << >>,
                FALSE, FALSE, FALSE)

\* C27: when the model's text fails to parse the stage does not raise:
\* ingestion returns the fallback profile made of the client input
\* alone, value mapping, pain analysis and journey mapping return the
\* record of an empty structure, and the stage block reports complete.
C27_ParseFailureDegrades ==
    (ObjectExtractor /\ ParseFailed) =>
        /\ module_result[1].ok
        /\ StageBlock.returned /\ StageBlock.caught = << >>
        /\ LET record == module_result[1].value[1]
           IN CASE parse_module = "data_ingestion" ->
                     /\ record.company_profile.name
                          = << given_input.client_name >>
                     /\ record.company_profile.website_url
                          = given_input.website_url
                     /\ record.company_profile.industry
                          = given_input.industry
                     /\ record.company_profile.business_model
                          = given_input.business_model
                     /\ record.company_profile.products_services = << >>
                     /\ record.company_profile.competitors = << >>
                [] parse_module = "usp_extraction" ->
                     /\ record.icp_name \in ItemNames
                     /\ record.value_proposition_statement = << >>
                     /\ record.fit_score = 0
                     /\ record.pain_relievers = << >>
                     /\ record.gain_creators = << >>
                [] parse_module = "pain_taxonomy" ->
                     /\ record.icp_name \in ItemNames
                     /\ record.functional_pains = << >>
                     /\ record.financial_pains = << >>
                     /\ record.emotional_pains = << >>
                [] parse_module = "journey_mapping" ->
                     /\ record.icp_name \in ItemNames
                     /\ record.awareness_stage = << >>
                     /\ record.decision_stage = << >>

C27_Witness ==
    /\ parse_module = "data_ingestion"
    /\ origin.kind = "fenced truncated"
    /\ ParseFailed
    /\ module_result # << >>
    /\ module_result[1].ok
    /\ module_result[1].value[1].company_profile.name
         = << given_input.client_name >>

\* ---- run_stage
StageNames ==
    {"data_ingestion", "audience_research", "usp_extraction",
     "pain_taxonomy", "journey_mapping"}

\* C28: run_stage invokes the module named by stage_id and no other,
\* emits no progress event, and hands the module's return value or its
\* exception to the caller as it is; any other stage_id raises an error
\* and no module is invoked.
C28_RunStageIsOneBareStage ==
    /\ trace = << >>
    /\ \A k \in DOMAIN stage_log :
          LET run == stage_log[k]
          IN IF run.stage_id \in StageNames
             THEN /\ Len(run.invoked) = 1
                  /\ run.invoked[1].stage = run.stage_id
                  /\ run.ok = run.invoked[1].out.ok
                  /\ run.value = run.invoked[1].out.value
                  /\ run.exc = run.invoked[1].out.exc
             ELSE /\ run.invoked = << >>
                  /\ ~run.ok
                  /\ run.exc # << >>
                  /\ run.exc[1].type = "ValueError"

C28_Witness ==
    /\ progress_callback = "ok"
    /\ Len(stage_log) = 2
    /\ stage_log[1].stage_id = "pain_taxonomy"
    /\ ~stage_log[1].ok
    /\ stage_log[1].exc = stage_log[1].invoked[1].out.exc
    /\ stage_log[2].stage_id = "compilation"
    /\ stage_log[2].invoked = << >>

\* ---- research and analyze
\* What a call of chat for `model` ends with when the transport behaves
\* as `posts` says, attempt by attempt: chat's own semantics, whoever
\* the caller.
DirectOutcome(model, posts) ==
    IF model \notin DOMAIN AVAILABLE_MODELS
    THEN ChatRaised(<< UnknownModel(model) >>)
    ELSE LET last == posts[Len(posts)]
             failure == AttemptFailure(last)
         IN IF failure # << >>
            THEN IF RetryIf(failure[1])
                 THEN ChatRaised(<< RetryError(failure[1]) >>)
                 ELSE ChatRaised(failure)
            ELSE IF last.response[1].json.choices = << >>
                 THEN ChatRaised(<< KeyError >>)
                 ELSE ChatReturned(
                          LLMResponse(last.response[1].json.choices[1],
                                      model,
                                      UsageOf(model, last.response[1].json),
                                      last.response[1].json))

\* The records such a call adds to the ledger.
DirectLedgerGrowth(model, posts) ==
    LET outcome == DirectOutcome(model, posts)
    IN IF outcome.value # << >> THEN << outcome.value[1].usage >>
       ELSE << >>

\* The attempts such a call makes: it goes on after a retried failure
\* and only then, three times at most.
DirectAttempts(model, posts) ==
    IF model \notin DOMAIN AVAILABLE_MODELS THEN posts = << >>
    ELSE /\ Len(posts) \in 1..MaxAttempts
         /\ \A k \in 1..(Len(posts) - 1) :
               /\ AttemptFailure(posts[k]) # << >>
               /\ RetryIf(AttemptFailure(posts[k])[1])
         /\ (AttemptFailure(posts[Len(posts)]) # << >>
             /\ RetryIf(AttemptFailure(posts[Len(posts)])[1]))
                => Len(posts) = MaxAttempts

ChatDone == chat_pc \in {"returned", "raised"}

\* C29: research and analyze make one chat call each; research passes
\* temperature 0.3 and the default research model when none is given,
\* analyze 0.7 and the default analysis model; attempts, outcome and
\* ledger growth are those of chat for the same model and the same
\* transport behaviour.
C29_ResearchAnalyzeAreChat ==
    /\ chats = entry_calls
    /\ (entry.name = "research") =>
          /\ temperature = ResearchTemperature
          /\ chat_model = IF entry.model # << >> THEN entry.model[1]
                          ELSE DEFAULT_RESEARCH_MODEL
    /\ (entry.name = "analyze") =>
          /\ temperature = AnalysisTemperature
          /\ chat_model = IF entry.model # << >> THEN entry.model[1]
                          ELSE DEFAULT_ANALYSIS_MODEL
    /\ (entry.name \in {"research", "analyze"} /\ ChatDone) =>
          /\ DirectAttempts(chat_model, attempts)
          /\ chat_outcome = << DirectOutcome(chat_model, attempts) >>
          /\ usage_log
               = log_before \o DirectLedgerGrowth(chat_model, attempts)

C29_Witness ==
    /\ entry = [name |-> "research", model |-> << >>]
    /\ chat_model = DEFAULT_RESEARCH_MODEL
    /\ chat_pc = "returned"
    /\ Len(attempts) = MaxAttempts
    /\ Len(usage_log) = Len(log_before) + 1
    /\ log_before # << >>

\* ---- termination
\* C30: every run_research call that has begun eventually returns its
\* result, given that the program goes on and every request attempt
\* ends; each client call makes a bounded number of attempts and the
\* loop takes each generated item once.
C30_RunEventuallyReturns ==
    (pc # "idle") ~> (HasReturned /\ Len(results) = 1)

\* A run that returned after an item went through the three per-item
\* stages, with a client call that was retried to the ceiling.
C30_Witness ==
    /\ HasReturned
    /\ Len(icp_results) = 1
    /\ i = Len(icps)
    /\ Len(attempts) = MaxAttempts
    /\ chats > ClientCalls("data_ingestion") + 3

\* ---- backoff waits
\* C31: within one chat call the waits done so far are one fewer than the
\* attempts begun: none before the first attempt, none after the last;
\* the j-th wait follows the j-th attempt, which failed with a timeout or
\* an HTTP status error; and every wait is between the configured minimum
\* and maximum.
C31_WaitsOnlyBetweenAttempts ==
    (chat_pc # "idle") =>
        /\ Len(sleeps) = attempt_number - 1
        /\ (chat_pc = "request") => Len(attempts) <= Len(sleeps)
        /\ (chat_pc # "request" /\ chat_model \in DOMAIN AVAILABLE_MODELS)
              => Len(attempts) = Len(sleeps) + 1
        /\ \A j \in 1..Len(sleeps) :
              /\ j <= Len(attempts)
              /\ TimeoutOrStatusError(j)
              /\ sleeps[j] >= WaitMin
              /\ sleeps[j] <= WaitMax

C31_Witness ==
    /\ chat_pc = "raised"
    /\ Len(attempts) = MaxAttempts
    /\ Len(sleeps) = MaxAttempts - 1
    /\ sleeps = << WaitMin, WaitMin >>

\* ---- bundles and events
\* The field of a bundle a per-item stage fills.
BundleField(bundle, stage) ==
    IF stage = "usp_extraction" THEN bundle.value_proposition
    ELSE IF stage = "pain_taxonomy" THEN bundle.pain_taxonomy
    ELSE bundle.journey_map

BundleMatchesEvents(bundle, n) ==
    \A s \in 1..Len(PerItemStages) :
        LET stage == PerItemStages[s]
            id == StageId(stage, n)
        IN /\ (BundleField(bundle, stage) # << >>)
                <=> (Events(id, {"complete"}) # {})
           /\ (BundleField(bundle, stage) = << >>)
                <=> (Events(id, {"error"}) # {})

\* C32: with an observer that never raises, the bundle of every finished
\* item has the field of each per-item stage present exactly when a
\* "complete" event was emitted under that stage's identifier for the
\* item, and absent exactly when an "error" event was; the bundles of the
\* returned result are these bundles.
C32_BundleFieldsFollowEvents ==
    (progress_callback = "ok") =>
        /\ \A n \in 1..Len(icp_results) :
              BundleMatchesEvents(icp_results[n], n)
        /\ HasReturned =>
              \A n \in 1..Len(results[1].icps) :
                  BundleMatchesEvents(results[1].icps[n], n)

C32_Witness ==
    /\ progress_callback = "ok"
    /\ HasReturned
    /\ Len(results[1].icps) = 2
    /\ results[1].icps[1].value_proposition = << >>
    /\ results[1].icps[1].pain_taxonomy # << >>
    /\ results[1].icps[2].journey_map = << >>
    /\ Events(StageId("usp_extraction", 1), {"error"}) # {}
    /\ Events(StageId("journey_mapping", 2), {"error"}) # {}

\* ---- observer failing at once
\* The observer has been told that ingestion is running and nothing else
\* has happened since: its call raised.
RaisedOnFirstEvent ==
    /\ Len(trace) = 1
    /\ trace[1].kind = "event"

\* C33: when the observer raises on the first progress event (ingestion
\* "running"), no stage module is invoked, no request is made (the ledger
\* stays empty), the exception is caught by the outer handler, and
\* run_research returns a result with the error set, no profile and an
\* empty item list instead of raising.
C33_FirstEventFailureIsReturned ==
    RaisedOnFirstEvent =>
        /\ trace[1].stage_id = "data_ingestion"
        /\ trace[1].status = "running"
        /\ NumCalls(trace) = 0
        /\ usage_log = << >>
        /\ exc = << CallbackError >>
        /\ pc \in {"except", "returned"}
        /\ HasReturned =>
              /\ results[1].error = << Str(CallbackError) >>
              /\ results[1].icps = << >>
              /\ results[1].company_profile = << >>
              /\ results[1].cost_summary.total_requests = 0

C33_Witness ==
    /\ RaisedOnFirstEvent
    /\ progress_callback = "unsafe"
    /\ HasReturned
    /\ results[1].error # << >>

\* ---- the ledger after a failed stage
\* Of the two research calls of ingestion the first returned and the
\* second raised.
SecondResearchCallFailed ==
    module_chats = [serial |-> 0, outs |-> << TRUE, FALSE >>]

\* C34: when the first research call of ingestion returned and the second
\* raised, the ledger holds the record of the first call from then on (it
\* is the ledger the second call found at its entry), ingestion ends the
\* run, and the result returned carries the error, no items, and a cost
\* summary that counts that one request with its tokens and cost.
C34_FailedStageKeepsLedger ==
    SecondResearchCallFailed =>
        /\ Len(usage_log) = 1
        /\ usage_log = log_before
        /\ usage_log[1].model = DEFAULT_RESEARCH_MODEL
        /\ NumCalls(trace) <= 1
        /\ HasReturned =>
              /\ results[1].error # << >>
              /\ results[1].icps = << >>
              /\ results[1].cost_summary.total_requests = 1
              /\ results[1].cost_summary.total_cost
                   = usage_log[1].estimated_cost
              /\ results[1].cost_summary.total_tokens.total
                   = usage_log[1].total_tokens

C34_Witness ==
    /\ SecondResearchCallFailed
    /\ HasReturned
    /\ results[1].cost_summary.total_requests = 1
    /\ results[1].cost_summary.total_cost > 0
    /\ Len(attempts) = MaxAttempts

\* ---- the size of the ledger
\* Every client call begun has returned and left its record.
NoCallFailed == chat_pc = "idle" /\ chats = Len(usage_log)

\* C35: a run starts on an empty ledger; with N the number of generated
\* items, the ledger never holds more than 3 + 3N records and the client
\* is never called more than 3 + 3N times, whatever the retries, and when
\* the result is returned after a run in which no call failed it holds
\* exactly 3 + 3N.
C35_LedgerSizeOfRun ==
    /\ Len(usage_log) <= 3 + 3 * Len(icps)
    /\ chats <= 3 + 3 * Len(icps)
    /\ Len(usage_log) <= chats
    /\ (HasReturned /\ NoCallFailed) =>
          /\ Len(usage_log) = 3 + 3 * Len(icps)
          /\ results[1].cost_summary.total_requests = 3 + 3 * Len(icps)

C35_Witness ==
    /\ HasReturned
    /\ NoCallFailed
    /\ Len(icps) = 1
    /\ Len(usage_log) = 6
    /\ Len(attempts) = MaxAttempts
    /\ Len(sleeps) = MaxAttempts - 1

\* ---- runs on one tracker
\* The summary of the result stored before the run under way.
StoredSummary == session.cost_summary[1]

\* The records the run under way has added to the ledger.
RecordsOfRun ==
    SubSeq(usage_log, StoredSummary.total_requests + 1, Len(usage_log))

\* C36: no run resets the ledger.  In a run that follows another on the
\* same tracker the ledger still begins with the records the earlier
\* result summarised, and the summary of the result of the later run
\* counts the records of both: its total_requests and total_cost are
\* those of the earlier result plus those of the records the later run
\* added.
C36_LedgerSpansRuns ==
    (session.stored > 0) =>
        /\ Len(usage_log) >= StoredSummary.total_requests
        /\ GetSummary(SubSeq(usage_log, 1, StoredSummary.total_requests))
             = StoredSummary
        /\ Len(RecordsOfRun) = Sum(CallSeq, "logged")
        /\ HasReturned =>
              /\ results[1].cost_summary.total_requests
                   = StoredSummary.total_requests + Sum(CallSeq, "logged")
              /\ results[1].cost_summary.total_cost
                   = StoredSummary.total_cost
                     + Sum(RecordsOfRun, "estimated_cost")

C36_Witness ==
    /\ session.stored = 1
    /\ HasReturned
    /\ StoredSummary.total_requests = 6
    /\ results[1].cost_summary.total_requests = 12
    /\ results[1].error = << >>

\* ---- the ledger only grows
\* The step is made by get_summary (its entry or one of its getters).
SummaryStep == sum_pc' # sum_pc \/ summary' # summary

\* C37: every step leaves the ledger as it is or adds exactly one record
\* at its end, the records before it unchanged; a step of get_summary or
\* of one of its getters leaves the ledger unchanged; and a summary
\* returned over a ledger that no log_usage changed since the call began
\* is the summary of that ledger, so that two such calls in a row return
\* equal summaries.
C37_LedgerIsAppendOnly ==
    [][ /\ \/ usage_log' = usage_log
           \/ /\ Len(usage_log') = Len(usage_log) + 1
              /\ SubSeq(usage_log', 1, Len(usage_log)) = usage_log
        /\ SummaryStep => usage_log' = usage_log
        /\ (sum_pc' = "done" /\ usage_log' = summary_log') =>
              SummaryDict(summary') = GetSummary(usage_log') ]_vars

C37_Witness ==
    /\ sum_pc = "done"
    /\ usage_log = summary_log
    /\ Len(usage_log) = MaxLog
    /\ usage_log[1].model # usage_log[2].model
    /\ SummaryDict(summary).total_requests = MaxLog

\* ---- audience generation converts all elements or none
\* The invocation of audience generation, and whether one of the elements
\* it extracted does not convert.
AudienceCalls ==
    { k \in DOMAIN CallSeq : CallSeq[k].stage = "audience_research" }

HasBadElement(call) ==
    \E e \in DOMAIN call.elements : ~ParseIcp(call.elements[e]).ok

\* C38: when one of the elements audience generation extracted does not
\* convert, the stage raises, no further module is invoked, the item list
\* stays empty and the result carries the error and no items; when the
\* stage returns, the items are the conversions of all the elements, in
\* order.
C38_AudienceIsAllOrNothing ==
    \A k \in AudienceCalls :
        LET call == CallSeq[k] IN
        /\ HasBadElement(call) =>
              /\ call.raised
              /\ k = Len(CallSeq)
              /\ icps = << >>
              /\ icp_results = << >>
              /\ pc \in {"except", "returned"}
              /\ HasReturned =>
                    /\ results[1].error = << Str(ValidationError) >>
                    /\ results[1].icps = << >>
        /\ ~call.raised =>
              /\ Len(icps) = Len(call.elements)
              /\ \A j \in DOMAIN icps :
                    icps[j] = ParseIcp(call.elements[j]).value[1]

C38_Witness ==
    /\ HasReturned
    /\ \E k \in AudienceCalls :
          /\ Len(CallSeq[k].elements) = 2
          /\ ParseIcp(CallSeq[k].elements[1]).ok
          /\ ~ParseIcp(CallSeq[k].elements[2]).ok
    /\ results[1].icps = << >>
    /\ results[1].company_profile # << >>

\* ---- the result does not depend on the observer
\* The ledger records of the first n module invocations, in order.
RECURSIVE UsageOfCalls(_, _)
UsageOfCalls(calls, n) ==
    IF n = 0 THEN << >>
    ELSE UsageOfCalls(calls, n - 1) \o calls[n].usage

\* The result of a run, from what its module invocations returned or
\* raised and nothing else: neither the observer nor its events.
ResultOfCalls(calls) ==
    LET ingestion == calls[1]
        fatal == IF ingestion.raised THEN ingestion.exc
                 ELSE IF calls[2].raised THEN calls[2].exc ELSE << >>
        items == IF fatal # << >> THEN << >> ELSE calls[2].value[1]
    IN [company_profile |->
            IF ingestion.raised THEN << >>
            ELSE << ingestion.value[1].profile >>,
        raw_research_data |->
            IF ingestion.raised THEN "empty" ELSE ingestion.value[1].raw,
        icps |-> [n \in DOMAIN items |->
                    [icp |-> items[n],
                     value_proposition |-> calls[3 * n].value,
                     pain_taxonomy |-> calls[3 * n + 1].value,
                     journey_map |-> calls[3 * n + 2].value]],
        error |-> IF fatal # << >> THEN << Str(fatal[1]) >> ELSE << >>,
        cost_summary |-> GetSummary(UsageOfCalls(calls, Len(calls)))]

\* C39: with no observer and with an observer that does not raise alike,
\* the result returned (error, profile, raw payloads, bundles and cost
\* summary) is the one determined by what the module invocations returned
\* or raised, and the invocations are made in the one order those
\* outcomes determine: the two leading stages, then the three per-item
\* stages of every item in turn, ending at a fatal failure.
C39_ResultIgnoresObserver ==
    HasReturned =>
        /\ CallSeq # << >>
        /\ results[1] = ResultOfCalls(CallSeq)
        /\ \A k \in DOMAIN CallSeq :
              /\ << CallSeq[k].stage, CallSeq[k].idx >> = ExpectedCall(k)
              /\ (k < Len(CallSeq) /\ k <= 2) => ~CallSeq[k].raised
        /\ Len(CallSeq) =
              (IF results[1].error # << >>
               THEN (IF CallSeq[1].raised THEN 1 ELSE 2)
               ELSE 2 + 3 * Len(results[1].icps))

C39_Witness ==
    /\ HasReturned
    /\ progress_callback = "ok"
    /\ Len(results[1].icps) = 2
    /\ results[1].icps[1].pain_taxonomy = << >>
    /\ results[1].icps[2].journey_map # << >>
    /\ results[1] = ResultOfCalls(CallSeq)
    /\ Events("data_ingestion", {"complete"}) # {}

\* ---- the business model through ingestion
\* The answer is whole and gives as business model the text of the value
\* the run was given, which the prompt put into it.
EchoesBusinessModel ==
    /\ origin.kind \in {"serialized", "prose", "fenced"}
    /\ origin.value[1].t = "dict"
    /\ HasKey(origin.value[1], "business_model")
    /\ Get(origin.value[1], "business_model", JString(<< >>))
         = JString(CanonicalText(given_input.business_model))

\* C40: when the answer of the company research gives as business model
\* the text of the value of the client input (B2B, B2C or Both), the
\* profile ingestion builds carries that value.
C40_BusinessModelRoundTrip ==
    (parse_module = "data_ingestion" /\ EchoesBusinessModel) =>
        /\ module_result[1].ok
        /\ module_result[1].value[1].company_profile.business_model
             = given_input.business_model

====
